---- MODULE Spec2Model ----
(***************************************************************************)
(* ctgen: the task execution engine (CtGenTask in src/task.rs).            *)
(*                                                                         *)
(* A task is constructed from a profile, a context directory, an optional  *)
(* subject table and optional overrides (CtGenTask::new).  Prompts are     *)
(* answered with set_prompt_answer, which folds the answers into the       *)
(* rendering context; render_prompt evaluates a prompt definition against  *)
(* the context; run generates the targets of the profile.                  *)
(*                                                                         *)
(* Strings on which the code computes (answers, rendered text) are         *)
(* sequences of one-character strings.  Option<T> is a sequence of length  *)
(* at most one.  The database, the file system, the process environment    *)
(* and the template engine are external: their outcomes are chosen by the  *)
(* actions from the results the calls can produce.                         *)
(***************************************************************************)
EXTENDS Integers, Sequences, FiniteSets, TLC

\* Largest number of generic prompts a profile of the model declares.
MaxPrompts == 2
\* Largest number of targets a profile of the model lists.
MaxTargets == 3

----------------------------------------------------------------------------
(* Option<T> *)

None == <<>>
Some(x) == <<x>>
IsSome(o) == o # <<>>
Unwrap(o) == o[1]

----------------------------------------------------------------------------
(* Strings and serde_json::Value *)

Whitespace == {" "}

RECURSIVE TrimStart(_)
TrimStart(s) ==
    IF s # <<>> /\ Head(s) \in Whitespace THEN TrimStart(Tail(s)) ELSE s

RECURSIVE TrimEnd(_)
TrimEnd(s) ==
    IF s # <<>> /\ s[Len(s)] \in Whitespace
    THEN TrimEnd(SubSeq(s, 1, Len(s) - 1))
    ELSE s

\* str::trim
Trim(s) == TrimEnd(TrimStart(s))

VString(s) == [kind |-> "String", s |-> s, items |-> <<>>]
VArray(a) == [kind |-> "Array", s |-> <<>>, items |-> a]
VNull == [kind |-> "Null", s |-> <<>>, items |-> <<>>]
VFalse == [kind |-> "Bool", s |-> <<>>, items |-> <<>>]

\* answer.as_str().unwrap_or_default()
AsStrOrDefault(v) == IF v.kind = "String" THEN v.s ELSE <<>>

\* The text the template engine writes for a value: a string as it is, an
\* array as "[a, b]", null as nothing.
RECURSIVE JoinItems(_)
JoinItems(items) ==
    IF items = <<>> THEN <<>>
    ELSE IF Len(items) = 1 THEN Head(items)
    ELSE Head(items) \o <<",", " ">> \o JoinItems(Tail(items))

ValueText(v) ==
    IF v.kind = "String" THEN v.s
    ELSE IF v.kind = "Array" THEN <<"[">> \o JoinItems(v.items) \o <<"]">>
    ELSE <<>>

----------------------------------------------------------------------------
(* Templates.  A template is a sequence of parts: literal text, a          *)
(* reference to a prompt answer of the context ({{prompts/<id>}}), or a    *)
(* malformed expression on which rendering fails.                          *)

Lit(s) == [t |-> "lit", id |-> "", s |-> s]
Var(id) == [t |-> "var", id |-> id, s |-> <<>>]
Bad == [t |-> "bad", id |-> "", s |-> <<>>]

\* The context the engine sees: the prompts map of the context, empty when
\* the task has no context (Option::None serialises to null).
ContextPrompts(ctx) ==
    IF IsSome(ctx) THEN Unwrap(ctx).prompts ELSE [k \in {} |-> VNull]

RECURSIVE RenderParts(_, _)
RenderParts(parts, answers) ==
    IF parts = <<>> THEN <<>>
    ELSE LET p == Head(parts)
             text == IF p.t = "lit" THEN p.s
                     ELSE IF p.id \in DOMAIN answers THEN ValueText(answers[p.id])
                     ELSE <<>>
         IN text \o RenderParts(Tail(parts), answers)

\* CtGenTask::render: Ok(text) is Some(text), a rendering error is None.
Render(template, ctx) ==
    IF \E i \in 1..Len(template) : template[i].t = "bad"
    THEN None
    ELSE Some(RenderParts(template, ContextPrompts(ctx)))

----------------------------------------------------------------------------
(* The database server behind the reflection adapter. *)

Db1 == <<"d">>
DbX == <<"e">>
Tb1 == <<"t">>
Tb2 == <<"u">>
TbX == <<"x">>

\* list_database_names: the server has one database, Db1 (DbX is a name
\* it does not have).
DatabaseNames == {Db1}

\* list_table_names on a connection bound to db (none when no database is
\* bound): Db1 has the tables Tb1 and Tb2 (TbX is a name it does not have).
TableNames(db) == IF db = Db1 THEN {Tb1, Tb2} ELSE {}

\* Connection strings: without a database, and with database Db1.
DsnNoDb == "mysql://host"
DsnDb1 == "mysql://host/d"

\* get_database_name right after connect(dsn)
DsnDatabase(dsn) == IF dsn = DsnDb1 THEN Db1 ELSE <<>>

----------------------------------------------------------------------------
(* Profiles *)

PromptNames == <<"p1", "p2", "p3", "p4">>
TargetNames == <<"plain", "one", "zero", "pad", "bad", "cond">>

\* The options of a prompt: a template to render and split (a toml string),
\* or the value of a prompt declared without options, false.
StaticOptions == [is_str |-> FALSE, template |-> <<>>]
TemplateOptions(template) == [is_str |-> TRUE, template |-> template]

\* A CtGenPrompt.  Odd prompts are required and unconditional; even
\* prompts are asked only when the prompt before them was answered "1",
\* the second is optional and the fourth required.  The first prompt
\* enumerates the items "a" and "b".  Odd prompts offer the options "1"
\* and "2", written as a template; even prompts declare no options.
PromptDef(i) ==
    [condition |-> IF i % 2 = 1 THEN None ELSE Some(<<Var(PromptNames[i - 1])>>),
     enumerate |-> IF i = 1 THEN Some(<<Lit(<<"a", ",", "b">>)>>) ELSE None,
     prompt |-> <<Lit(<<"?">>)>>,
     options |-> IF i % 2 = 1 THEN TemplateOptions(<<Lit(<<"1", ",", "2">>)>>)
                 ELSE StaticOptions,
     required |-> (i % 2 = 1 \/ i = 4),
     multiple |-> FALSE]

\* A CtGenTarget by name.
TargetDef(name) ==
    [condition |->
        IF name = "plain" THEN None
        ELSE IF name = "one" THEN Some(<<Lit(<<"1">>)>>)
        ELSE IF name = "zero" THEN Some(<<Lit(<<"0">>)>>)
        ELSE IF name = "pad" THEN Some(<<Lit(<<" ", "1">>), Lit(<<" ">>)>>)
        ELSE IF name = "bad" THEN Some(<<Bad>>)
        ELSE Some(<<Var(PromptNames[1])>>),
     template |-> name,
     target |-> <<Lit(<<name>>)>>,
     formatter |-> IF name = "one" THEN Some(<<Lit(<<"f">>)>>) ELSE None]

Config(env_file, env_var, dsn, target_dir) ==
    [env_file |-> env_file, env_var |-> env_var, dsn |-> dsn, target_dir |-> target_dir]

Range(seq) == {seq[k] : k \in 1..Len(seq)}

\* A CtGenProfile: its directives, its ordered prompt and target lists, and
\* the definitions of the listed prompts and targets that have one.
Profile(config, prompts, targets) ==
    [config |-> config,
     prompts |-> prompts,
     targets |-> targets,
     prompt |-> [id \in Range(prompts) \cap Range(PromptNames) |->
                    PromptDef(CHOOSE k \in 1..Len(PromptNames) : PromptNames[k] = id)],
     target |-> [n \in Range(targets) \cap Range(TargetNames) |-> TargetDef(n)]]

\* The prompt lists of the model's profiles: p1..pn, and p2, p1, and a
\* list that names a prompt ("ghost") the profile does not define.
PromptLists ==
    {[i \in 1..n |-> PromptNames[i]] : n \in 0..MaxPrompts}
    \cup {<<PromptNames[2], PromptNames[1]>>, <<PromptNames[1], "ghost">>}

RECURSIVE SeqsUpTo(_, _)
SeqsUpTo(S, n) ==
    IF n = 0 THEN {<<>>}
    ELSE LET shorter == SeqsUpTo(S, n - 1)
         IN shorter \cup {Append(s, x) : s \in shorter, x \in S}

\* The target lists of the model's profiles.
TargetLists ==
    SeqsUpTo({"one", "zero"}, MaxTargets)
    \cup {<<"plain">>, <<"pad", "plain">>, <<"plain", "bad", "plain">>,
          <<"plain", "nowhere", "one">>}

DefaultConfig == Config(".env", "DATABASE_URL", "", "src")

\* Overrides (CtGenProfileConfigOverrides): each field an Option<String>.
Overrides(env_file, env_var, dsn, target_dir) ==
    [env_file |-> env_file, env_var |-> env_var, dsn |-> dsn, target_dir |-> target_dir]

\* The profile and overrides a task is created from: the prompt lists,
\* the target lists, and the connection and directory directives with
\* their overrides.
PromptScenarios ==
    {[profile |-> Profile(DefaultConfig, pl, <<"cond">>), overrides |-> None] :
        pl \in PromptLists}

TargetScenarios ==
    {[profile |-> Profile(DefaultConfig, <<>>, tl), overrides |-> None] :
        tl \in TargetLists}

\* <<the profile's env-file, the profile's env-var>>
EnvDirectives ==
    {<<"", "">>, <<".env", "">>, <<"", "DATABASE_URL">>, <<".env", "DATABASE_URL">>}

\* <<the profile's value, the override>>
DsnDirectives ==
    {<<d, o>> : d \in {"", DsnNoDb, DsnDb1}, o \in {None, Some(""), Some(DsnDb1)}}

DirDirectives ==
    {<<d, o>> : d \in {"", ".", "src"}, o \in {None, Some(""), Some("out")}}

ConnectionScenarios ==
    {[profile |-> Profile(Config(e[1], e[2], d[1], "src"), <<>>, <<"plain">>),
      overrides |-> Some(Overrides(None, None, d[2], None))] :
        e \in EnvDirectives, d \in DsnDirectives}
    \cup
    {[profile |-> Profile(Config(".env", "DATABASE_URL", "", "src"), <<>>, <<"plain">>),
      overrides |-> Some(Overrides(f, v, None, None))] :
        f \in {Some(""), Some(".env.local")}, v \in {Some(""), Some("DB")}}

DirectoryScenarios ==
    {[profile |-> Profile(Config(".env", "DATABASE_URL", "", t[1]), <<>>, <<"plain">>),
      overrides |-> Some(Overrides(None, None, None, t[2]))] :
        t \in DirDirectives}

\* The --prompt arguments of the model, each a list of <<key, value>>: a
\* value with commas and one without; a key that names no prompt, a key
\* given twice and an empty value for a required prompt.
PromptArgs ==
    {<< <<PromptNames[1], <<"1", ",", "2", ",", "3">> >>, <<PromptNames[2], <<"1">> >> >>,
     << <<"ghost", <<"1">> >>, <<PromptNames[2], <<"1">> >>,
        <<PromptNames[2], <<"0">> >>, <<PromptNames[1], <<>> >> >>}

\* The run command: with --prompt arguments, and without them on a
\* profile whose second prompt is required and conditional.
RunScenarios ==
    {[profile |-> Profile(DefaultConfig, <<PromptNames[1], PromptNames[2]>>, <<"cond">>),
      overrides |-> None,
      prompt |-> Some(args)] : args \in PromptArgs}
    \cup
    {[profile |-> Profile(DefaultConfig, <<PromptNames[3], PromptNames[4]>>, <<"cond">>),
      overrides |-> None,
      prompt |-> None]}

----------------------------------------------------------------------------
(* Task prompts (CtGenTaskPrompt) *)

PromptDatabase == [tag |-> "PromptDatabase"]
PromptTable == [tag |-> "PromptTable"]
PromptGeneric(id, data) == [tag |-> "PromptGeneric", prompt_id |-> id, prompt_data |-> data]

----------------------------------------------------------------------------
(* CtGenTask::new *)

\* One of the four directives: the override when the overrides carry one,
\* the profile's value otherwise.
Effective(ov, config, name) ==
    IF IsSome(ov) /\ IsSome(Unwrap(ov)[name])
    THEN Unwrap(Unwrap(ov)[name])
    ELSE config[name]

\* The connection string.  fileLoads: dotenvy can load the env file;
\* varValue: the value of the environment variable, None when unset.
DsnResult(result, message, dsn, env_loaded, var_read) ==
    [result |-> result, message |-> message, dsn |-> dsn,
     env_loaded |-> env_loaded, var_read |-> var_read]

\* A resolution that validates the env file before it looks at the dsn.
ResolveDsnEnvFirst(dsn, env_file, env_var, fileLoads, varValue) ==
    IF env_file = ""
    THEN DsnResult("ValidationError", "Invalid env-file specified", "", FALSE, FALSE)
    ELSE IF dsn # "" THEN DsnResult("Ok", "", dsn, FALSE, FALSE)
    ELSE IF ~fileLoads
    THEN DsnResult("ValidationError", "Invaid env file specified", "", FALSE, FALSE)
    ELSE IF env_var = ""
    THEN DsnResult("ValidationError", "Invalid env-var specified", "", TRUE, FALSE)
    ELSE IF varValue = None
    THEN DsnResult("ValidationError", "Invaid env var specified", "", TRUE, TRUE)
    ELSE DsnResult("Ok", "", Unwrap(varValue), TRUE, TRUE)

\* A resolution that looks at the env-var directive before it loads the
\* env file.
ResolveDsnVarFirst(dsn, env_file, env_var, fileLoads, varValue) ==
    IF dsn # "" THEN DsnResult("Ok", "", dsn, FALSE, FALSE)
    ELSE IF env_file = ""
    THEN DsnResult("ValidationError", "Invalid env-file specified", "", FALSE, FALSE)
    ELSE IF env_var = ""
    THEN DsnResult("ValidationError", "Invalid env-var specified", "", FALSE, FALSE)
    ELSE IF ~fileLoads
    THEN DsnResult("ValidationError", "Invaid env file specified", "", FALSE, FALSE)
    ELSE IF varValue = None
    THEN DsnResult("ValidationError", "Invaid env var specified", "", TRUE, TRUE)
    ELSE DsnResult("Ok", "", Unwrap(varValue), TRUE, TRUE)

ResolveDsn(dsn, env_file, env_var, fileLoads, varValue) ==
    IF dsn # "" THEN DsnResult("Ok", "", dsn, FALSE, FALSE)
    ELSE IF env_file = ""
    THEN DsnResult("ValidationError", "Invalid env-file specified", "", FALSE, FALSE)
    ELSE IF ~fileLoads
    THEN DsnResult("ValidationError", "Invaid env file specified", "", FALSE, FALSE)
    ELSE IF env_var = ""
    THEN DsnResult("ValidationError", "Invalid env-var specified", "", TRUE, FALSE)
    ELSE IF varValue = None
    THEN DsnResult("ValidationError", "Invaid env var specified", "", TRUE, TRUE)
    ELSE DsnResult("Ok", "", Unwrap(varValue), TRUE, TRUE)

\* The canonical target directory, a path of components.
CanonicalTargetDir(context_dir, target_dir) ==
    IF target_dir = "" \/ target_dir = "."
    THEN <<context_dir>>
    ELSE <<context_dir, target_dir>>

\* Two checks of which only the one that completes first is looked at.
TargetDirChecksRaced(exists, writable, first) ==
    IF first = "file_exists" THEN <<exists, exists>> ELSE <<writable, writable>>

\* join!(file_exists, file_is_writable): both checks run to completion, in
\* either order, and each result is returned in its own place.
TargetDirChecks(exists, writable, first) == <<exists, writable>>

\* A prompt list with the generic prompts ahead of the other two.
NewPromptsGenericFirst(profile_, database, table_) ==
    [i \in 1..Len(profile_.prompts) |->
            PromptGeneric(profile_.prompts[i], profile_.prompt[profile_.prompts[i]])]
    \o (IF database = <<>> THEN <<PromptDatabase>> ELSE <<>>)
    \o (IF table_ = None THEN <<PromptTable>> ELSE <<>>)

\* The prompt list of a new task.
NewPrompts(profile_, database, table_) ==
    (IF database = <<>> THEN <<PromptDatabase>> ELSE <<>>)
    \o (IF table_ = None THEN <<PromptTable>> ELSE <<>>)
    \o [i \in 1..Len(profile_.prompts) |->
            PromptGeneric(profile_.prompts[i], profile_.prompt[profile_.prompts[i]])]

\* get_reflection: the reflected schema of the bound database.
Reflection(database) == [name |-> database, tables |-> TableNames(database)]

\* CtGenTaskContext::new: Some(context), or None when the reflected schema
\* has no such table.
NewContext(database, table_name) ==
    IF table_name \in database.tables
    THEN Some([database |-> database,
               table_name |-> table_name,
               prompts |-> [k \in {} |-> VNull]])
    ELSE None

NoTask ==
    [prompts |-> <<>>, database_name |-> <<>>, table |-> None,
     target_dir |-> <<>>, context |-> None]

NewFailed(result, message, r, created) ==
    [result |-> result, message |-> message, connect |-> None,
     env_loaded |-> r.env_loaded, var_read |-> r.var_read, created |-> created,
     reflected |-> FALSE, task |-> NoTask]

\* The outcome of CtGenTask::new(profile_, context_dir, table_, ov) in the
\* environment env: whether the env file loads, the value of the
\* environment variable, the state of the target directory ("ok",
\* "missing", "readonly", or "mkdir_fails" when it cannot be created),
\* which of the two checks of the directory completes first, and whether
\* the database calls and the renderer set-up succeed.
NewOutcome(profile_, context_dir, table_, ov, env) ==
    LET config == profile_.config
        env_file == Effective(ov, config, "env_file")
        env_var == Effective(ov, config, "env_var")
        dsn0 == Effective(ov, config, "dsn")
        target_dir_ == Effective(ov, config, "target_dir")
        r == ResolveDsn(dsn0, env_file, env_var, env.fileLoads, env.varValue)
        canonical == CanonicalTargetDir(context_dir, target_dir_)
        creates == Len(canonical) > 1
        created == IF creates /\ env.dir = "missing" THEN {canonical} ELSE {}
        exists == creates \/ env.dir # "missing"
        checks == TargetDirChecks(exists, exists /\ env.dir # "readonly", env.first)
        b1 == checks[1]
        b2 == checks[2]
        database == DsnDatabase(r.dsn)
        pre_create == database # <<>> /\ table_ # None
        prompts_ == NewPrompts(profile_, database, table_)
        ctx == IF pre_create THEN NewContext(Reflection(database), Unwrap(table_)) ELSE None
        connected(result, message) ==
            [NewFailed(result, message, r, created) EXCEPT !.connect = Some(r.dsn)]
        reflected(result, message) ==
            [connected(result, message) EXCEPT !.reflected = TRUE]
    IN  IF r.result # "Ok" THEN NewFailed(r.result, r.message, r, {})
        ELSE IF creates /\ env.dir = "mkdir_fails"
        THEN NewFailed("InitError", "Cannot create config directory", r, {})
        ELSE IF ~b1 \/ ~b2
        THEN NewFailed("ValidationError", "Invalid target-dir specified", r, created)
        ELSE IF r.dsn = "" \/ ~env.connectOk
        THEN NewFailed("DatabaseError", "connect", r, created)
        ELSE IF table_ # None /\ ~env.listOk
        THEN connected("DatabaseError", "list_table_names")
        ELSE IF table_ # None /\ Unwrap(table_) \notin TableNames(database)
        THEN connected("ValidationError", "Table does not exist")
        ELSE IF \E i \in 1..Len(profile_.prompts) :
                    profile_.prompts[i] \notin DOMAIN profile_.prompt
        THEN connected("Panic", "unwrap on None")
        ELSE IF pre_create /\ ~env.reflectOk
        THEN reflected("DatabaseError", "get_reflection")
        ELSE IF pre_create /\ ctx = None
        THEN reflected("ValidationError", "Table not found")
        ELSE IF ~env.rendererOk
        THEN [connected("TemplateError", "register_templates_directory")
                EXCEPT !.reflected = pre_create]
        ELSE [result |-> "Ok", message |-> "", connect |-> Some(r.dsn),
              env_loaded |-> r.env_loaded, var_read |-> r.var_read,
              created |-> created, reflected |-> pre_create,
              task |-> [prompts |-> prompts_, database_name |-> database,
                        table |-> table_, target_dir |-> canonical, context |-> ctx]]

----------------------------------------------------------------------------
(* State *)

VARIABLES
    pc,              \* "dialog" (ask_prompt on its own), "registry" (CtGen on its own),
                     \* or "loaded", then "start" (the current profile, before
                     \* CtGenTask::new) or "rejected", then "ready" or "failed"
    profile,         \* the task's profile
    overrides,       \* the task's overrides
    prompt_args,     \* the --prompt arguments of the run command
    profiles,        \* IndexMap<String, String>, the registry: name to profile file
    current_profile, \* Option<CtGenProfile>, the current profile of CtGen
    profile_files,   \* the profile files on disk, by directory
    prompts,         \* Vec<CtGenTaskPrompt>
    prompt_answers,  \* HashMap<String, Value>
    database_name,   \* the database the reflection adapter is bound to
    table,           \* Option<String>, the subject table
    target_dir,      \* canonical target directory
    context,         \* Option<CtGenTaskContext>
    lastOp,          \* the last call: its arguments and what it returned
    log              \* what the last call did, in order: the steps of a run on
                     \* each target, the call of get_reflection of another call

vars ==
    <<pc, profile, overrides, prompt_args, profiles, current_profile, profile_files,
      prompts, prompt_answers, database_name, table, target_dir, context, lastOp, log>>

taskVars == <<prompts, prompt_answers, database_name, table, target_dir, context>>
registryVars == <<profiles, current_profile, profile_files>>
setupVars == <<profile, overrides, prompt_args, registryVars>>

\* A call: its arguments, its result, and what it was seen to do (the
\* rendered prompt of render_prompt; for new, the error message, the
\* connection string handed to the adapter, whether the env file was
\* loaded and the environment variable read, and the directories created).
Op(op, prompt, answer, result, rendered) ==
    [op |-> op, prompt |-> prompt, answer |-> answer, result |-> result,
     rendered |-> rendered]

NoAnswers == [k \in {} |-> VNull]

\* The registry of a task on its own: the task is followed from its
\* profile, whatever the registry it was taken from.
NoRegistry ==
    /\ profiles = [n \in {} |-> ""]
    /\ current_profile = None
    /\ profile_files = [d \in {} |-> None]

InitFrom(scenarios) ==
    /\ \E sc \in scenarios :
         /\ profile = sc.profile
         /\ overrides = sc.overrides
         /\ prompt_args = IF "prompt" \in DOMAIN sc THEN sc.prompt ELSE None
    /\ NoRegistry
    /\ pc = "loaded"
    /\ prompts = <<>>
    /\ prompt_answers = NoAnswers
    /\ database_name = <<>>
    /\ table = None
    /\ target_dir = <<>>
    /\ context = None
    /\ lastOp = Op("none", None, None, "Ok", None)
    /\ log = <<>>

\* CtGenProfile::validate in the file system env: whether the templates
\* directory, the scripts directory and the template files of the targets
\* exist.  The targets are looked at in list order.
RECURSIVE ValidateTargets(_, _, _)
ValidateTargets(profile_, i, env) ==
    IF i > Len(profile_.targets) THEN "Ok"
    ELSE IF profile_.targets[i] \notin DOMAIN profile_.target THEN "ValidationError"
    ELSE IF ~env.templateFiles THEN "ValidationError"
    ELSE ValidateTargets(profile_, i + 1, env)

Validate(profile_, env) ==
    IF ~env.templatesDir THEN "ValidationError"
    ELSE IF ~env.scriptsDir THEN "ValidationError"
    ELSE ValidateTargets(profile_, 1, env)

ValidateEnvs == [templatesDir : BOOLEAN, scriptsDir : BOOLEAN, templateFiles : BOOLEAN]

\* CtGen::set_current_profile on the loaded profile
SetCurrentProfile(env) ==
    /\ pc = "loaded"
    /\ LET result == Validate(profile, env)
       IN /\ pc' = IF result = "Ok" THEN "start" ELSE "rejected"
          /\ lastOp' = Op("set_current_profile", None, None, result, None)
    /\ UNCHANGED <<taskVars, setupVars, log>>

NewEnvs ==
    [fileLoads : BOOLEAN,
     varValue : {None, Some(""), Some(DsnNoDb), Some(DsnDb1)},
     dir : {"ok", "missing", "readonly", "mkdir_fails"},
     first : {"file_exists", "file_is_writable"},
     connectOk : BOOLEAN, listOk : BOOLEAN, reflectOk : BOOLEAN,
     rendererOk : BOOLEAN]

TableArgs == {None, Some(Tb1), Some(TbX)}

\* What a call that is not a run leaves in the log: the call of
\* get_reflection, when it made one.
Reflections(reflected) ==
    IF reflected THEN <<[ev |-> "get_reflection", target |-> 0]>> ELSE <<>>

\* A task that holds its profile with the overrides written into it.
TaskProfileMerged(profile_, ov) ==
    [profile_ EXCEPT !.config =
        [name \in DOMAIN profile_.config |-> Effective(ov, profile_.config, name)]]

\* The profile a task holds: a clone of the one it was created from.
TaskProfile(profile_, ov) == profile_

\* CtGenTask::new
New(table_, env) ==
    /\ pc = "start"
    /\ LET out == NewOutcome(profile, "ctx", table_, overrides, env)
       IN /\ pc' = IF out.result = "Ok" THEN "ready" ELSE "failed"
          /\ prompts' = out.task.prompts
          /\ database_name' = out.task.database_name
          /\ table' = out.task.table
          /\ target_dir' = out.task.target_dir
          /\ context' = out.task.context
          /\ lastOp' = Op("new", None,
                          IF table_ = None THEN None ELSE Some(VString(Unwrap(table_))),
                          out.result,
                          Some([message |-> out.message, connect |-> out.connect,
                                env_loaded |-> out.env_loaded,
                                var_read |-> out.var_read, created |-> out.created]))
          /\ log' = Reflections(out.reflected)
    /\ prompt_answers' = NoAnswers
    /\ profile' = TaskProfile(profile, overrides)
    /\ UNCHANGED <<overrides, prompt_args, registryVars>>

----------------------------------------------------------------------------
(* Prompt resolution *)

\* A filter that looks for a generic prompt's answer in the context.
UnansweredInContext(p) ==
    IF p.tag = "PromptGeneric" THEN p.prompt_id \notin DOMAIN ContextPrompts(context)
    ELSE IF p.tag = "PromptDatabase" THEN database_name = <<>>
    ELSE table = None

\* A filter that counts the database and table prompts as unanswered for
\* as long as there is no context.
UnansweredUntilContext(p) ==
    IF p.tag = "PromptGeneric" THEN p.prompt_id \notin DOMAIN prompt_answers
    ELSE context = None

\* The filter of prompts_unanswered: whether prompt p still needs an answer.
\* A reading where a generic prompt stays unanswered while its answer is "".
UnansweredWhileBlank(p) ==
    IF p.tag = "PromptGeneric"
    THEN \/ p.prompt_id \notin DOMAIN prompt_answers
         \/ prompt_answers[p.prompt_id] = VString(<<>>)
    ELSE IF p.tag = "PromptDatabase" THEN database_name = <<>>
    ELSE table = None

Unanswered(p) ==
    IF p.tag = "PromptGeneric" THEN p.prompt_id \notin DOMAIN prompt_answers
    ELSE IF p.tag = "PromptDatabase" THEN database_name = <<>>
    ELSE table = None

\* CtGenTask::prompts_unanswered
prompts_unanswered == SelectSeq(prompts, Unanswered)

\* A readiness that looks at the context only.
ContextExists == IsSome(context)

\* CtGenTask::is_context_ready
is_context_ready == IsSome(context) /\ prompts_unanswered = <<>>

\* HashMap::insert
Insert(map, key, value) ==
    [k \in DOMAIN map \cup {key} |-> IF k = key THEN value ELSE map[k]]

\* A required check that compares the string as given.
RefusedUntrimmed(prompt_data, answer) ==
    /\ prompt_data.required
    /\ IF answer.kind = "String" THEN answer.s = <<>>
       ELSE IF answer.kind = "Array" THEN answer.items = <<>>
       ELSE FALSE

\* The required check of set_prompt_answer: whether the answer is refused.
Refused(prompt_data, answer) ==
    /\ prompt_data.required
    /\ IF answer.kind = "String" THEN Trim(answer.s) = <<>>
       ELSE IF answer.kind = "Array" THEN answer.items = <<>>
       ELSE FALSE

\* A fold that keeps the value a prompt id already has in the context.
FoldKeepingOld(ctx, answers) ==
    [result |-> "Ok",
     context |-> Some([Unwrap(ctx) EXCEPT !.prompts =
            [k \in DOMAIN @ \cup DOMAIN answers |->
                IF k \in DOMAIN @ THEN @[k] ELSE answers[k]]])]

\* The first arm of update_context: every recorded answer is written into
\* the context that exists.
Fold(ctx, answers) ==
    [result |-> "Ok",
     context |-> Some([Unwrap(ctx) EXCEPT !.prompts =
            [k \in DOMAIN @ \cup DOMAIN answers |->
                IF k \in DOMAIN answers THEN answers[k] ELSE @[k]]])]

\* A second arm that leaves the task without a context.
CreateNothing(database, table_, reflectOk) == [result |-> "Ok", context |-> None]

\* The second arm of update_context: the schema is reflected and the
\* context is made from it and the subject table.
Create(database, table_, reflectOk) ==
    IF ~reflectOk THEN [result |-> "DatabaseError", context |-> None]
    ELSE LET made == NewContext(Reflection(database), Unwrap(table_))
         IN [result |-> IF made = None THEN "ValidationError" ELSE "Ok",
             context |-> made]

\* What an arm of update_context left, and whether the arm called
\* get_reflection.
Updated(arm, reflected) ==
    [result |-> arm.result, context |-> arm.context, reflected |-> reflected]

\* An update_context that makes the context anew, from the table that is
\* set now, each time both the database and the table are known.
UpdateContextRecomputed(ctx, answers, database, table_, reflectOk) ==
    IF database # <<>> /\ IsSome(table_)
    THEN LET made == Create(database, table_, reflectOk)
         IN  Updated(IF made.result = "Ok" THEN Fold(made.context, answers) ELSE made,
                     TRUE)
    ELSE [result |-> "Ok", context |-> ctx, reflected |-> FALSE]

\* An update_context without its second arm: it folds the answers into a
\* context that exists and never makes one.
UpdateContextFoldOnly(ctx, answers, database, table_, reflectOk) ==
    IF IsSome(ctx) THEN Updated(Fold(ctx, answers), FALSE)
    ELSE [result |-> "Ok", context |-> None, reflected |-> FALSE]

\* CtGenTask::update_context on a task with the given fields: the context
\* it leaves, and its result.
UpdateContext(ctx, answers, database, table_, reflectOk) ==
    IF IsSome(ctx) THEN Updated(Fold(ctx, answers), FALSE)
    ELSE IF database # <<>> /\ IsSome(table_)
    THEN Updated(Create(database, table_, reflectOk), TRUE)
    ELSE [result |-> "Ok", context |-> None, reflected |-> FALSE]

\* set_database_name: binds an existing database, refuses any other name.
SetDatabaseName(name, bindOk) ==
    IF bindOk /\ name \in DatabaseNames
    THEN [result |-> "Ok", database_name |-> name]
    ELSE [result |-> "DatabaseError", database_name |-> database_name]

\* A PromptTable arm that takes the answer without looking it up.
AnswerTableUnchecked(answer, listOk) ==
    [result |-> "Ok", table |-> Some(AsStrOrDefault(answer))]

\* The PromptTable arm: the answer becomes the subject table when it is
\* among the table names listed now.
AnswerTable(answer, listOk) ==
    IF ~listOk THEN [result |-> "DatabaseError", table |-> table]
    ELSE IF AsStrOrDefault(answer) \in TableNames(database_name)
    THEN [result |-> "Ok", table |-> Some(AsStrOrDefault(answer))]
    ELSE [result |-> "ValidationError", table |-> table]

\* The outcome of set_prompt_answer(prompt, answer): the fields it leaves
\* and its result.  env: whether the database calls succeed.
SetPromptAnswerOutcome(prompt, answer, env) ==
    LET same == [result |-> "Ok", database_name |-> database_name, table |-> table,
                 prompt_answers |-> prompt_answers, context |-> context,
                 reflected |-> FALSE]
        bound == SetDatabaseName(AsStrOrDefault(answer), env.bindOk)
        tabled == AnswerTable(answer, env.listOk)
        first ==
            IF prompt.tag = "PromptDatabase"
            THEN [same EXCEPT !.result = bound.result,
                              !.database_name = bound.database_name]
            ELSE IF prompt.tag = "PromptTable"
            THEN [same EXCEPT !.result = tabled.result, !.table = tabled.table]
            ELSE IF Refused(prompt.prompt_data, answer)
            THEN [same EXCEPT !.result = "ValidationError"]
            ELSE [same EXCEPT !.prompt_answers =
                                    Insert(prompt_answers, prompt.prompt_id, answer)]
        updated == UpdateContext(first.context, first.prompt_answers,
                                 first.database_name, first.table, env.reflectOk)
    IN  IF first.result # "Ok" THEN first
        ELSE [first EXCEPT !.result = updated.result, !.context = updated.context,
                           !.reflected = updated.reflected]

\* The database during one call: every call succeeds, or one of them fails.
AllOk == [bindOk |-> TRUE, listOk |-> TRUE, reflectOk |-> TRUE]

AnswerEnvs(prompt) ==
    {AllOk, [AllOk EXCEPT !.reflectOk = FALSE]}
    \cup (IF prompt.tag = "PromptDatabase" THEN {[AllOk EXCEPT !.bindOk = FALSE]}
          ELSE IF prompt.tag = "PromptTable" THEN {[AllOk EXCEPT !.listOk = FALSE]}
          ELSE {})

\* The answers the model gives to required generic prompts: empty and
\* blank ones, a single character, a one-element list.
GenericAnswers ==
    {VString(<<>>), VString(<<" ">>), VString(<<"1">>), VArray(<<>>),
     VArray(<< <<"1">> >>)}

\* The answers it gives to optional ones: the empty string the run command
\* records for a prompt it does not ask, and "1".
OptionalAnswers == {VString(<<>>), VString(<<"1">>)}

DatabaseAnswers == {VString(Db1), VString(DbX), VNull}

TableAnswers == {VString(Tb1), VString(Tb2), VString(TbX)}

\* The prompts the model answers: the database and table prompts, and the
\* generic prompts of the task.
AnswerablePrompts ==
    {PromptDatabase, PromptTable} \cup {prompts[i] : i \in 1..Len(prompts)}

AnswersFor(prompt) ==
    IF prompt.tag = "PromptGeneric"
    THEN IF prompt.prompt_data.required THEN GenericAnswers ELSE OptionalAnswers
    ELSE IF prompt.tag = "PromptDatabase" THEN DatabaseAnswers
    ELSE TableAnswers

\* CtGenTask::set_prompt_answer
SetPromptAnswer(prompt, answer, env) ==
    /\ pc = "ready"
    /\ LET out == SetPromptAnswerOutcome(prompt, answer, env)
       IN /\ database_name' = out.database_name
          /\ table' = out.table
          /\ prompt_answers' = out.prompt_answers
          /\ context' = out.context
          /\ lastOp' = Op("set_prompt_answer", Some(prompt), Some(answer), out.result, None)
          /\ log' = Reflections(out.reflected)
    /\ UNCHANGED <<pc, prompts, target_dir, setupVars>>

----------------------------------------------------------------------------
(* render_prompt *)

\* str::split(','): the pieces of s between commas.
RECURSIVE Split(_, _)
Split(s, piece) ==
    IF s = <<>> THEN <<piece>>
    ELSE IF Head(s) = "," THEN <<piece>> \o Split(Tail(s), <<>>)
    ELSE Split(Tail(s), Append(piece, Head(s)))

\* The outcome of render_prompt(prompt): its result and, when Ok, the
\* rendered prompt (should_ask, prompt, options, multiple).
RenderPromptOutcome(prompt) ==
    LET condition == IF IsSome(prompt.condition)
                     THEN Render(Unwrap(prompt.condition), context)
                     ELSE None
        prompt_text == Render(prompt.prompt, context)
        rendered_options == Render(prompt.options.template, context)
        options == IF prompt.options.is_str
                   THEN VArray(Split(Unwrap(rendered_options), <<>>))
                   ELSE VFalse
        condition_met == condition = None \/ Trim(Unwrap(condition)) = <<"1">>
    IN  IF prompt_text = None \/ (prompt.options.is_str /\ rendered_options = None)
        THEN [result |-> "TemplateError", rendered |-> None]
        ELSE [result |-> "Ok",
              rendered |-> Some([should_ask |-> condition_met,
                                 prompt |-> Unwrap(prompt_text),
                                 options |-> options,
                                 multiple |-> prompt.multiple])]

\* The prompt definitions the model renders: the profile's, and one for
\* each shape of condition, prompt text and options.
PromptWith(condition, prompt, options) ==
    [condition |-> condition, enumerate |-> None, prompt |-> prompt,
     options |-> options, required |-> FALSE, multiple |-> FALSE]

Conditions ==
    {None, Some(<<Lit(<<" ", "1", " ">>)>>), Some(<<Lit(<<"0">>)>>), Some(<<Bad>>),
     Some(<<Var(PromptNames[1])>>)}

RenderablePrompts ==
    {PromptWith(c, <<Lit(<<"?">>)>>, StaticOptions) : c \in Conditions}
    \cup {PromptWith(None, <<Bad>>, StaticOptions),
          PromptWith(None, <<Lit(<<"?">>)>>, TemplateOptions(<<Lit(<<"a", ",", "b">>)>>))}

\* A render_prompt whose decision also depends on the call before it: a
\* prompt is not to be asked when the last call was a render_prompt too.
RenderPromptOnce(prompt) ==
    /\ pc = "ready"
    /\ LET out == RenderPromptOutcome(prompt)
           rendered == IF out.result = "Ok" /\ lastOp.op = "render_prompt"
                       THEN Some([Unwrap(out.rendered) EXCEPT !.should_ask = FALSE])
                       ELSE out.rendered
       IN lastOp' = Op("render_prompt", Some(prompt), None, out.result, rendered)
    /\ log' = <<>>
    /\ UNCHANGED <<pc, taskVars, setupVars>>

\* A render_prompt that drops the context when the prompt does not render.
RenderPromptDropping(prompt) ==
    /\ pc = "ready"
    /\ LET out == RenderPromptOutcome(prompt)
       IN /\ lastOp' = Op("render_prompt", Some(prompt), None, out.result, out.rendered)
          /\ context' = IF out.result = "Ok" THEN context ELSE None
    /\ log' = <<>>
    /\ UNCHANGED <<pc, prompts, prompt_answers, database_name, table, target_dir, setupVars>>

\* CtGenTask::render_prompt
RenderPrompt(prompt) ==
    /\ pc = "ready"
    /\ LET out == RenderPromptOutcome(prompt)
       IN lastOp' = Op("render_prompt", Some(prompt), None, out.result, out.rendered)
    /\ log' = <<>>
    /\ UNCHANGED <<pc, taskVars, setupVars>>

----------------------------------------------------------------------------
(* The --prompt overrides of the run command *)

\* An override that is recorded as a string whatever its value.
OverrideAnswerScalar(value) == VString(value)

\* The answer made of an override's value: the list of its pieces when it
\* holds a comma, the string otherwise.
OverrideAnswer(value) ==
    IF \E k \in 1..Len(value) : value[k] = ","
    THEN VArray(Split(value, <<>>))
    ELSE VString(value)

\* The generic prompts with this id among the prompts that were unanswered
\* when the overrides began.  No generic prompt is answered before the
\* overrides, so these are the generic prompts of the task.
OverriddenPrompts(id) ==
    {i \in 1..Len(prompts) :
        prompts[i].tag = "PromptGeneric" /\ prompts[i].prompt_id = id}

\* One pass of the loop over the --prompt arguments, which begins right
\* after the task was created and ends when an answer is refused: the
\* first generic prompt with the argument's key, if there is one, is
\* answered with its value.  Without --prompt arguments nothing is done.
\* The call records the position of the argument.
PromptOverride(env) ==
    /\ pc = "ready"
    /\ lastOp.op \in {"new", "prompt_override"}
    /\ lastOp.result = "Ok"
    /\ IF prompt_args = None
       THEN lastOp.op = "new" /\ UNCHANGED <<taskVars, lastOp, log>>
       ELSE LET at == IF lastOp.op = "new" THEN 1 ELSE Unwrap(lastOp.rendered).at + 1
                arg == Unwrap(prompt_args)[at]
                found == OverriddenPrompts(arg[1])
                prompt == prompts[CHOOSE i \in found : \A j \in found : i <= j]
                answer == OverrideAnswer(arg[2])
                out == SetPromptAnswerOutcome(prompt, answer, env)
            IN  /\ at <= Len(Unwrap(prompt_args))
                /\ IF found = {}
                   THEN /\ lastOp' = Op("prompt_override", None, None, "Ok",
                                        Some([at |-> at]))
                        /\ log' = <<>>
                        /\ UNCHANGED taskVars
                   ELSE /\ database_name' = out.database_name
                        /\ table' = out.table
                        /\ prompt_answers' = out.prompt_answers
                        /\ context' = out.context
                        /\ lastOp' = Op("prompt_override", Some(prompt), Some(answer),
                                        out.result, Some([at |-> at]))
                        /\ log' = Reflections(out.reflected)
                        /\ UNCHANGED <<prompts, target_dir>>
    /\ UNCHANGED <<pc, setupVars>>

----------------------------------------------------------------------------
(* ask_prompt, the dialog of the run command *)

\* A keyed option set (a JSON object): its keys and, in items, their values.
VObject(keys, values) == [kind |-> "Object", s |-> <<>>, items |-> values, keys |-> keys]

AskKeys == << <<"0">>, <<"1">>, <<"2">> >>

\* The keyed option set with these keys, in key order; key k has value "vk".
KeyedOptions(K) ==
    LET keys == SelectSeq(AskKeys, LAMBDA k : k \in K)
    IN  VObject(keys, [i \in 1..Len(keys) |-> <<"v">> \o keys[i]])

\* The options the model passes to ask_prompt: none, a default text, a
\* value that is neither text nor a collection, lists, and the keyed sets
\* over the keys "0", "1" and "2".
AskOptions ==
    {None, Some(VString(<<"d">>)), Some(VNull),
     Some(VArray(<< <<"a">> >>)), Some(VArray(<< <<"a">>, <<"b">> >>))}
    \cup {Some(KeyedOptions(K)) : K \in SUBSET Range(AskKeys)}

\* Whether a single-answer collection is shown with the confirm widget: it
\* is an object and each of its keys is "0" or "1".
UsesConfirm(options) ==
    options.kind = "Object"
    /\ \A i \in 1..Len(options.keys) : options.keys[i] \in {<<"0">>, <<"1">>}

\* The widget ask_prompt shows.
Widget(options, multiple) ==
    IF options = None THEN "input"
    ELSE IF Unwrap(options).kind = "String" THEN "input_default"
    ELSE IF Unwrap(options).kind \notin {"Object", "Array"} THEN "none"
    ELSE IF multiple THEN "multiselect"
    ELSE IF UsesConfirm(Unwrap(options)) THEN "confirm"
    ELSE "select"

\* The sequences of distinct indices in 1..n.
RECURSIVE Picks(_)
Picks(S) ==
    {<<>>} \cup UNION {{<<i>> \o rest : rest \in Picks(S \ {i})} : i \in S}

Ascending(seq) == \A i, j \in 1..Len(seq) : i < j => seq[i] < seq[j]

\* What the user can do in the dialog: type a text, say yes or no, pick
\* one item, or pick some items, which come back in list order unless the
\* prompt is ordered and the user sorts them.
Interactions(options, multiple, ordered) ==
    LET widget == Widget(options, multiple)
        n == Len(Unwrap(options).items)
    IN  IF widget \in {"input", "input_default"}
        THEN {[text |-> t] : t \in {<<>>, <<"x">>}}
        ELSE IF widget = "none" THEN {[text |-> <<>>]}
        ELSE IF widget = "confirm" THEN {[yes |-> b] : b \in BOOLEAN}
        ELSE IF widget = "select" THEN {[pick |-> i] : i \in 1..n}
        ELSE {[picks |-> p] : p \in {q \in Picks(1..n) : ordered \/ Ascending(q)}}

\* The key of the first entry of a keyed option set with this value, ""
\* when there is none.
KeyOf(options, value) ==
    LET at == {i \in 1..Len(options.items) : options.items[i] = value}
    IN  IF at = {} THEN <<>>
        ELSE options.keys[CHOOSE i \in at : \A j \in at : i <= j]

\* The answer of a picked item: its key in a keyed set, the item in a list.
Picked(options, i) ==
    IF options.kind = "Object" THEN KeyOf(options, options.items[i])
    ELSE options.items[i]

\* The outcome of ask_prompt: the widget shown, the result and the answer.
AskPromptOutcome(options, multiple, user) ==
    LET widget == Widget(options, multiple)
        opts == Unwrap(options)
        answer ==
            IF widget = "input" THEN VString(user.text)
            ELSE IF widget = "input_default"
            THEN VString(IF user.text = <<>> THEN opts.s ELSE user.text)
            ELSE IF widget = "confirm"
            THEN VString(IF user.yes THEN <<"1">> ELSE <<"0">>)
            ELSE IF widget = "select" THEN VString(Picked(opts, user.pick))
            ELSE VArray([k \in 1..Len(user.picks) |-> Picked(opts, user.picks[k])])
    IN  IF widget = "none"
        THEN [widget |-> widget, result |-> "RuntimeError", answer |-> None]
        ELSE [widget |-> widget, result |-> "Ok", answer |-> Some(answer)]

\* ask_prompt.  The call records its options, whether the prompt takes
\* several answers and the widget that was shown.
AskPrompt(options, multiple, ordered, user) ==
    /\ pc = "dialog"
    /\ LET out == AskPromptOutcome(options, multiple, user)
       IN lastOp' = Op("ask_prompt", None, out.answer, out.result,
                       Some([options |-> options, multiple |-> multiple,
                             ordered |-> ordered, widget |-> out.widget]))
    /\ UNCHANGED <<pc, taskVars, setupVars, log>>

----------------------------------------------------------------------------
(* The prompt loop of the run command *)

LoopEnvs(prompt) == AnswerEnvs(prompt) \cup {[AllOk EXCEPT !.listOk = FALSE]}

\* What the dialog of a prompt can return: a name for the database and
\* table prompts, and for a generic prompt what ask_prompt makes of the
\* rendered options and of what the user does.
LoopAnswers(prompt) ==
    IF prompt.tag = "PromptDatabase" THEN DatabaseAnswers
    ELSE IF prompt.tag = "PromptTable" THEN TableAnswers
    ELSE LET shown == RenderPromptOutcome(prompt.prompt_data)
             options == Some(Unwrap(shown.rendered).options)
             multiple == Unwrap(shown.rendered).multiple
         IN  IF \/ shown.result # "Ok"
                \/ ~Unwrap(shown.rendered).should_ask
                \/ Widget(options, multiple) = "none"
             THEN {VString(<<>>)}
             ELSE {Unwrap(AskPromptOutcome(options, multiple, user).answer) :
                      user \in Interactions(options, multiple, FALSE)}

\* One pass of the loop body, for the first prompt that is unanswered: the
\* names are listed (database and table prompts) or the prompt is
\* rendered (generic prompts), the dialog is shown, and the answer is
\* given to set_prompt_answer.  A generic prompt that should not be asked
\* is answered "".  The pass ends at ask_prompt when it refuses the
\* rendered options.  The call records how many times the dialog was shown.
PromptLoopStep(answer, env) ==
    /\ pc = "ready"
    /\ prompts_unanswered # <<>>
    /\ LET prompt == Head(prompts_unanswered)
           generic == prompt.tag = "PromptGeneric"
           shown == IF generic THEN RenderPromptOutcome(prompt.prompt_data)
                    ELSE [result |-> "Ok", rendered |-> None]
           asks == IF generic /\ ~Unwrap(shown.rendered).should_ask THEN 0 ELSE 1
           given == IF asks = 0 THEN VString(<<>>) ELSE answer
           widget == IF generic /\ asks = 1
                     THEN Widget(Some(Unwrap(shown.rendered).options),
                                 Unwrap(shown.rendered).multiple)
                     ELSE "select"
           out == SetPromptAnswerOutcome(prompt, given, env)
       IN  IF ~generic /\ ~env.listOk
           THEN /\ lastOp' = Op(IF prompt.tag = "PromptDatabase"
                                THEN "list_database_names" ELSE "list_table_names",
                                None, None, "DatabaseError", None)
                /\ log' = <<>>
                /\ UNCHANGED taskVars
           ELSE IF shown.result # "Ok"
           THEN /\ lastOp' = Op("render_prompt", Some(prompt.prompt_data), None,
                                shown.result, None)
                /\ log' = <<>>
                /\ UNCHANGED taskVars
           ELSE IF widget = "none"
           THEN /\ lastOp' = Op("ask_prompt", Some(prompt), None, "RuntimeError",
                                Some([asks |-> asks]))
                /\ log' = <<>>
                /\ UNCHANGED taskVars
           ELSE /\ database_name' = out.database_name
                /\ table' = out.table
                /\ prompt_answers' = out.prompt_answers
                /\ context' = out.context
                /\ lastOp' = Op("set_prompt_answer", Some(prompt), Some(given),
                                out.result, Some([asks |-> asks]))
                /\ log' = Reflections(out.reflected)
                /\ UNCHANGED <<prompts, target_dir>>
    /\ UNCHANGED <<pc, setupVars>>

----------------------------------------------------------------------------
(* Target generation *)

Ev(ev, i) == [ev |-> ev, target |-> i]

\* Whether a target path holds a template expression ("{{" and "}}").
HasExpression(template) == \E k \in 1..Len(template) : template[k].t # "lit"

\* A formatter whose non-zero exit status is an error of the target.
FormatterExitChecked(written, i, status) ==
    IF status = 0 THEN [result |-> "Ok", log |-> Append(written, Ev("formatted", i))]
    ELSE [result |-> "IoError", log |-> Append(written, Ev("formatter_failed", i))]

\* The end of render_target after the formatter ran: its exit status is
\* looked at and nothing is done about it.
FormatterExit(written, i, status) ==
    [result |-> "Ok",
     log |-> Append(written, Ev(IF status = 0 THEN "formatted" ELSE "formatter_failed", i))]

\* A render_target that resolves the path and creates the directory
\* before it renders the body.
PathFirst(i) == <<Ev("path", i), Ev("mkdir", i), Ev("render", i), Ev("write", i)>>

\* The steps of render_target up to the flush of the file, in their order:
\* the body is rendered, the path of the file is resolved, its directory
\* is created, and the file is written.
Written(i) == <<Ev("render", i), Ev("path", i), Ev("mkdir", i), Ev("write", i)>>

\* render_target for the i-th listed target.  env.fail names the step of a
\* target that fails in this run, if any; env.status is the exit status of
\* the formatter commands.  The formatter is launched and waited for.
RenderTarget(i, target, env) ==
    LET fails(step) == env.fail = Some(<<i, step>>)
        path == IF HasExpression(target.target)
                THEN Render(target.target, context)
                ELSE Some(RenderParts(target.target, NoAnswers))
        command == IF IsSome(target.formatter)
                   THEN Render(Unwrap(target.formatter), None)
                   ELSE None
        written == Written(i)
    IN  IF fails("render") THEN [result |-> "TemplateError", log |-> <<>>]
        ELSE IF path = None
        THEN [result |-> "TemplateError", log |-> SubSeq(written, 1, 1)]
        ELSE IF fails("mkdir")
        THEN [result |-> "InitError", log |-> SubSeq(written, 1, 2)]
        ELSE IF fails("write")
        THEN [result |-> "IoError", log |-> SubSeq(written, 1, 3)]
        ELSE IF target.formatter = None THEN [result |-> "Ok", log |-> written]
        ELSE IF command = None THEN [result |-> "TemplateError", log |-> written]
        ELSE IF fails("launch") THEN [result |-> "IoError", log |-> written]
        ELSE FormatterExit(Append(written, Ev("launch", i)), i, env.status)

\* A loop that passes over a target whose condition is not met and goes on
\* with the next one.
Continue(i, rest) == [result |-> rest.result, log |-> <<Ev("condition", i)>> \o rest.log]

\* What run does at the i-th target when its condition is not met: it
\* leaves the loop (rest is what the loop would do from the next target on).
Break(i, rest) == [result |-> "Ok", log |-> <<Ev("condition", i)>>]

\* A loop that goes on with the next target after a target failed.
Swallow(before, done, rest) ==
    [result |-> rest.result, log |-> before \o done.log \o rest.log]

\* What run does when render_target fails: it returns the error (before is
\* what the loop did at this target ahead of render_target).
Propagate(before, done, rest) ==
    [result |-> done.result, log |-> before \o done.log]

\* The loop of run from the i-th listed target on.
RECURSIVE RunFrom(_, _)
RunFrom(i, env) ==
    IF i > Len(profile.targets) THEN [result |-> "Ok", log |-> <<>>]
    ELSE IF profile.targets[i] \notin DOMAIN profile.target THEN RunFrom(i + 1, env)
    ELSE LET target == profile.target[profile.targets[i]]
             evaluated == IF IsSome(target.condition)
                          THEN Render(Unwrap(target.condition), context)
                          ELSE None
             done == RenderTarget(i, target, env)
             rest == RunFrom(i + 1, env)
         IN  IF IsSome(target.condition) /\ evaluated = None
             THEN [result |-> "TemplateError", log |-> <<>>]
             ELSE IF IsSome(target.condition) /\ Trim(Unwrap(evaluated)) # <<"1">>
             THEN Break(i, rest)
             ELSE IF done.result # "Ok"
             THEN Propagate(IF IsSome(target.condition) THEN <<Ev("condition", i)>> ELSE <<>>,
                            done, rest)
             ELSE [result |-> rest.result,
                   log |-> (IF IsSome(target.condition) THEN <<Ev("condition", i)>> ELSE <<>>)
                            \o done.log \o rest.log]

\* The outcome of run().
RunOutcome(env) ==
    IF ~is_context_ready THEN [result |-> "RuntimeError", log |-> <<>>]
    ELSE RunFrom(1, env)

Steps == {"render", "mkdir", "write", "launch"}

RunEnvs ==
    [fail : {None} \cup {Some(<<i, step>>) : i \in 1..Len(profile.targets), step \in Steps},
     status : {0, 1}]

\* A run that uses up the recorded answers.
RunConsuming(env) ==
    /\ pc = "ready"
    /\ LET out == RunOutcome(env)
       IN /\ lastOp' = Op("run", None, None, out.result, None)
          /\ log' = out.log
    /\ prompt_answers' = NoAnswers
    /\ UNCHANGED <<pc, prompts, database_name, table, target_dir, context, setupVars>>

\* CtGenTask::run
Run(env) ==
    /\ pc = "ready"
    /\ LET out == RunOutcome(env)
       IN /\ lastOp' = Op("run", None, None, out.result, None)
          /\ log' = out.log
    /\ UNCHANGED <<pc, taskVars, setupVars>>

----------------------------------------------------------------------------

Next ==
    \/ \E env \in ValidateEnvs : SetCurrentProfile(env)
    \/ \E t \in TableArgs, env \in NewEnvs : New(t, env)
    \/ \E p \in AnswerablePrompts :
         \E a \in AnswersFor(p), env \in AnswerEnvs(p) : SetPromptAnswer(p, a, env)
    \/ \E p \in RenderablePrompts : RenderPrompt(p)
    \/ /\ prompts_unanswered # <<>>
       /\ \E a \in LoopAnswers(Head(prompts_unanswered)),
             env \in LoopEnvs(Head(prompts_unanswered)) : PromptLoopStep(a, env)
    \/ \E env \in {AllOk, [AllOk EXCEPT !.reflectOk = FALSE]} : PromptOverride(env)
    \/ \E env \in RunEnvs : Run(env)

\* A task of a profile of each prompt list.
Init == InitFrom(PromptScenarios)
Spec == Init /\ [][Next]_vars

\* A task of a profile of each target list.
InitTargets == InitFrom(TargetScenarios)
SpecTargets == InitTargets /\ [][Next]_vars

\* A task of each set of connection and directory directives.
InitNew == InitFrom(ConnectionScenarios \cup DirectoryScenarios)
SpecNew == InitNew /\ [][Next]_vars

\* A run command with each list of --prompt arguments.
InitRun == InitFrom(RunScenarios)
SpecRun == InitRun /\ [][Next]_vars

\* The dialog on its own: no task is involved.
InitAsk ==
    /\ pc = "dialog"
    /\ profile = Profile(DefaultConfig, <<>>, <<>>)
    /\ overrides = None
    /\ prompt_args = None
    /\ NoRegistry
    /\ prompts = <<>>
    /\ prompt_answers = NoAnswers
    /\ database_name = <<>>
    /\ table = None
    /\ target_dir = <<>>
    /\ context = None
    /\ lastOp = Op("none", None, None, "Ok", None)
    /\ log = <<>>

NextAsk ==
    \E options \in AskOptions, multiple \in BOOLEAN, ordered \in BOOLEAN :
        \E user \in Interactions(options, multiple, ordered) :
            AskPrompt(options, multiple, ordered, user)

SpecAsk == InitAsk /\ [][NextAsk]_vars

----------------------------------------------------------------------------
(* The run command as one process *)

\* The calls of the prompt loop.
LoopOps ==
    {"set_prompt_answer", "ask_prompt", "render_prompt", "list_database_names",
     "list_table_names"}

\* The command has returned an error: each call of the command is followed
\* by `?`.
CommandAborted ==
    \/ pc \in {"rejected", "failed"}
    \/ lastOp.op \in LoopOps \cup {"prompt_override"} /\ lastOp.result # "Ok"

\* The command has called run, its last call.
CommandRan == lastOp.op = "run"

\* The loop over the --prompt arguments is over.
OverridesDone ==
    \/ prompt_args = None
    \/ lastOp.op \in LoopOps
    \/ /\ lastOp.op = "prompt_override"
       /\ Unwrap(lastOp.rendered).at = Len(Unwrap(prompt_args))

\* The next --prompt argument.
CommandOverride(env) ==
    /\ prompt_args # None
    /\ PromptOverride(env)

\* The next pass of the prompt loop, which follows the overrides.
CommandPrompt(answer, env) ==
    /\ OverridesDone
    /\ ~CommandAborted
    /\ PromptLoopStep(answer, env)

\* The loop is left when no prompt is unanswered, and run is called.
CommandRun(env) ==
    /\ OverridesDone
    /\ ~CommandAborted /\ ~CommandRan
    /\ prompts_unanswered = <<>>
    /\ Run(env)

\* The run command with and without --prompt arguments, for profiles whose
\* second prompt is optional or required.
CommandScenarios ==
    RunScenarios
    \cup {[profile |-> Profile(DefaultConfig, <<PromptNames[1], PromptNames[2]>>,
                               <<"cond">>),
           overrides |-> None,
           prompt |-> None]}

InitCommand == InitFrom(CommandScenarios)

NextCommand ==
    \/ \E env \in ValidateEnvs : SetCurrentProfile(env)
    \/ \E t \in TableArgs, env \in NewEnvs : New(t, env)
    \/ \E env \in {AllOk, [AllOk EXCEPT !.reflectOk = FALSE]} : CommandOverride(env)
    \/ /\ prompts_unanswered # <<>>
       /\ \E a \in LoopAnswers(Head(prompts_unanswered)),
             env \in LoopEnvs(Head(prompts_unanswered)) : CommandPrompt(a, env)
    \/ \E env \in RunEnvs : CommandRun(env)

\* The command runs to its end: it is one sequential process, and each
\* of its steps returns once the dialog it shows returns.
FairCommand == WF_vars(NextCommand)
SpecCommand == InitCommand /\ [][NextCommand]_vars /\ FairCommand

----------------------------------------------------------------------------
(* CtGen: the profile registry and the current profile *)

\* CONFIG_NAME_PATTERN, ^[a-zA-Z-_]+$: one or more letters, "-" or "_".
\* The names of the model are written with the letters a, b and Z, "-",
\* "_", the digit 1 and the space.
Letters == {"a", "b", "Z"}
IsMatch(name) ==
    /\ name # <<>>
    /\ \A i \in 1..Len(name) : name[i] \in Letters \cup {"-", "_"}

\* The names given to the registry calls.
NameArgs == {<<>>, <<"Z", "-", "_">>, <<"a", " ">>}

\* A path is the sequence of its segments.  The working directory is
\* "cwd"; "d" is a directory in it, and nothing is at "x/y".
\* PROFILE_DEFAULT_FILENAME is "Ctgen.toml".
Dirs == {"cwd", "d"}
PathArgs == {<<".">>, <<"d">>, <<"d", "Ctgen.toml">>, <<"x", "y">>}

\* The profile file a path of add_profile stands for, by its directory:
\* the default file of the working directory for ".", the default file of
\* a directory, or the .toml file itself.
ProfileFileOf(path) == IF path = <<".">> THEN "cwd" ELSE path[1]

\* What the file system and the profile file do to a registry call.
\* At most one step fails.
RegistryOk ==
    [loadOk |-> TRUE, saveOk |-> TRUE, writeOk |-> TRUE,
     validate |-> [templatesDir |-> TRUE, scriptsDir |-> TRUE, templateFiles |-> TRUE]]

RegistryEnvs ==
    {RegistryOk,
     [RegistryOk EXCEPT !.loadOk = FALSE],
     [RegistryOk EXCEPT !.saveOk = FALSE],
     [RegistryOk EXCEPT !.writeOk = FALSE],
     [RegistryOk EXCEPT !.validate.templatesDir = FALSE]}

\* The registry with name bound to the profile file of dir.
Registered(registry, name, dir) ==
    [n \in DOMAIN registry \cup {name} |-> IF n = name THEN dir ELSE registry[n]]

\* add_profile on the files of the disk: the name is checked unless it is
\* empty, the path is resolved, the file is loaded and validated, and the
\* profile is registered under the name, or under the name written in the
\* file when the name is empty.  Then the registry is saved.
AddProfileOutcome(name, path, files, env) ==
    LET same(result) == [result |-> result, profiles |-> profiles]
        dir == ProfileFileOf(path)
        key == IF name = <<>> THEN Unwrap(files[dir]).name ELSE name
    IN  IF name # <<>> /\ ~IsMatch(name) THEN same("ValidationError")
        ELSE IF dir \notin DOMAIN files \/ files[dir] = None THEN same("RuntimeError")
        ELSE IF ~env.loadOk THEN same("RuntimeError")
        ELSE IF Validate(profile, env.validate) # "Ok" THEN same("ValidationError")
        ELSE [result |-> IF env.saveOk THEN "Ok" ELSE "RuntimeError",
              profiles |-> Registered(profiles, key, dir)]

\* A registry call and what it returned.
RegistryOp(op, name, result) ==
    Op(op, None, None, result, Some([name |-> name]))

AddProfile(name, path, env) ==
    /\ pc = "registry"
    /\ LET out == AddProfileOutcome(name, path, profile_files, env)
       IN /\ profiles' = out.profiles
          /\ lastOp' = RegistryOp("add_profile", name, out.result)
    /\ UNCHANGED <<pc, taskVars, profile, overrides, prompt_args, current_profile,
                   profile_files, log>>

\* init_profile: the directory is resolved ("." is the working directory,
\* a name that matches the pattern a directory in it, another path must
\* exist and, being a file, cannot be made a directory), the directories
\* are made, the profile file is created with the
\* given name written in it, which fails when the file exists, and the
\* file is given to add_profile with the same name.
InitProfile(path, name, env) ==
    /\ pc = "registry"
    /\ LET dir == ProfileFileOf(path)
           created == [profile_files EXCEPT ![dir] = Some([name |-> name])]
           added == AddProfileOutcome(name, <<dir, "Ctgen.toml">>, created, env)
       IN  IF Len(path) > 1
           THEN /\ lastOp' = RegistryOp("init_profile", name,
                                        IF dir \in Dirs /\ profile_files[dir] # None
                                        THEN "InitError" ELSE "RuntimeError")
                /\ UNCHANGED <<profiles, profile_files>>
           ELSE IF profile_files[dir] # None \/ ~env.writeOk
           THEN /\ lastOp' = RegistryOp("init_profile", name, "RuntimeError")
                /\ UNCHANGED <<profiles, profile_files>>
           ELSE /\ profile_files' = created
                /\ profiles' = added.profiles
                /\ lastOp' = RegistryOp("init_profile", name, added.result)
    /\ UNCHANGED <<pc, taskVars, profile, overrides, prompt_args, current_profile, log>>

\* remove_profile: the name leaves the registry, the current profile is
\* dropped when it has this name, and the registry is saved.
RemoveProfile(name, env) ==
    /\ pc = "registry"
    /\ profiles' = [n \in DOMAIN profiles \ {name} |-> profiles[n]]
    /\ current_profile' = IF current_profile # None /\ Unwrap(current_profile).name = name
                          THEN None ELSE current_profile
    /\ lastOp' = RegistryOp("remove_profile", name,
                            IF env.saveOk THEN "Ok" ELSE "RuntimeError")
    /\ UNCHANGED <<pc, taskVars, profile, overrides, prompt_args, profile_files, log>>

\* set_current_profile that drops the current profile when the name is
\* not registered or the profile cannot be loaded.
SetCurrentProfileClearing(name, env) ==
    IF name \notin DOMAIN profiles
    THEN [result |-> "ValidationError", current_profile |-> None]
    ELSE IF ~env.loadOk THEN [result |-> "RuntimeError", current_profile |-> None]
    ELSE IF Validate(profile, env.validate) # "Ok"
    THEN [result |-> "ValidationError", current_profile |-> None]
    ELSE [result |-> "Ok",
          current_profile |-> Some([name |-> name, dir |-> profiles[name]])]

\* set_current_profile of a name: the profile file of a registered name
\* is loaded, takes the name (the name written in the file for the empty
\* name), is validated and becomes the current profile.
SetCurrentProfileOutcome(name, env) ==
    LET same(result) == [result |-> result, current_profile |-> current_profile]
        dir == profiles[name]
        loaded == [name |-> IF name = <<>> THEN Unwrap(profile_files[dir]).name ELSE name,
                   dir |-> dir]
    IN  IF name \notin DOMAIN profiles THEN same("ValidationError")
        ELSE IF ~env.loadOk THEN same("RuntimeError")
        ELSE IF Validate(profile, env.validate) # "Ok" THEN same("ValidationError")
        ELSE [result |-> "Ok", current_profile |-> Some(loaded)]

SetCurrentProfileByName(name, env) ==
    /\ pc = "registry"
    /\ LET out == SetCurrentProfileOutcome(name, env)
       IN /\ current_profile' = out.current_profile
          /\ lastOp' = RegistryOp("set_current_profile", name, out.result)
    /\ UNCHANGED <<pc, taskVars, profile, overrides, prompt_args, profiles,
                   profile_files, log>>

\* What happens to the tasks that create_task makes in the model: the
\* connection succeeds or fails.
TaskEnvs ==
    {env \in NewEnvs :
        /\ env.fileLoads /\ env.dir = "ok" /\ env.first = "file_exists"
        /\ env.listOk /\ env.reflectOk /\ env.rendererOk
        /\ env.varValue = Some(DsnDb1)}

\* create_task: the context directory is resolved, and CtGenTask::new is
\* called with the current profile; without one the call returns a
\* runtime error.  CtGen is left as it was; the call records whether
\* CtGenTask::new was called, and returns what it returned.
CreateTask(table_, realpathOk, env) ==
    /\ pc = "registry"
    /\ LET out == NewOutcome(profile, "ctx", table_, overrides, env)
       IN  IF ~realpathOk \/ current_profile = None
           THEN lastOp' = Op("create_task", None, None, "RuntimeError",
                             Some([constructed |-> FALSE]))
           ELSE lastOp' = Op("create_task", None, None, out.result,
                             Some([constructed |-> TRUE]))
    /\ UNCHANGED <<pc, taskVars, setupVars, log>>

\* CtGen with an empty registry and no current profile; the working
\* directory holds a profile file whose name does not match the pattern.
InitRegistry ==
    /\ pc = "registry"
    /\ profile = Profile(DefaultConfig, <<PromptNames[1]>>, <<"plain">>)
    /\ overrides = None
    /\ prompt_args = None
    /\ profiles = [n \in {} |-> ""]
    /\ current_profile = None
    /\ profile_files = [d \in Dirs |-> IF d = "cwd" THEN Some([name |-> <<"b", "1">>])
                                      ELSE None]
    /\ prompts = <<>>
    /\ prompt_answers = NoAnswers
    /\ database_name = <<>>
    /\ table = None
    /\ target_dir = <<>>
    /\ context = None
    /\ lastOp = Op("none", None, None, "Ok", None)
    /\ log = <<>>

NextRegistry ==
    \/ \E name \in NameArgs, path \in PathArgs, env \in RegistryEnvs :
          AddProfile(name, path, env)
    \/ \E path \in PathArgs, name \in NameArgs, env \in RegistryEnvs :
          InitProfile(path, name, env)
    \/ \E name \in NameArgs, env \in RegistryEnvs : RemoveProfile(name, env)
    \/ \E name \in NameArgs, env \in RegistryEnvs : SetCurrentProfileByName(name, env)
    \/ \E t \in {Some(Tb1)}, realpathOk \in BOOLEAN, env \in TaskEnvs :
          CreateTask(t, realpathOk, env)

SpecRegistry == InitRegistry /\ [][NextRegistry]_vars

----------------------------------------------------------------------------
(* Properties of target generation *)

\* The listed targets that have a definition, as positions in profile.targets.
Defined == {i \in 1..Len(profile.targets) : profile.targets[i] \in DOMAIN profile.target}

\* The positions of the targets whose condition is present and renders to a
\* text that, trimmed, is not "1".
FailedConditions ==
    {i \in Defined :
        LET condition == profile.target[profile.targets[i]].condition
        IN  /\ IsSome(condition)
            /\ Render(Unwrap(condition), context) # None
            /\ Trim(Unwrap(Render(Unwrap(condition), context))) # <<"1">>}

Min(S) == CHOOSE m \in S : \A n \in S : m <= n

\* The positions of the events ev of the last run, in the order they happened.
Targets(ev) ==
    LET hits == SelectSeq(log, LAMBDA e : e.ev = ev)
    IN  [n \in 1..Len(hits) |-> hits[n].target]

\* The defined targets before position k, in declaration order.
RECURSIVE DefinedBefore(_)
DefinedBefore(k) ==
    IF k <= 1 THEN <<>>
    ELSE IF (k - 1) \in Defined THEN Append(DefinedBefore(k - 1), k - 1)
    ELSE DefinedBefore(k - 1)

\* The last run went through every step of the i-th target.
Complete(i) ==
    /\ {Ev("render", i), Ev("mkdir", i), Ev("write", i)} \subseteq Range(log)
    /\ IsSome(profile.target[profile.targets[i]].formatter)
         => (Ev("formatted", i) \in Range(log) \/ Ev("formatter_failed", i) \in Range(log))

\* C1: when target k is the first whose condition renders to something other
\* than "1", a run on a ready task touches nothing from target k on (it only
\* evaluates the condition of k), writes targets in declaration order, and
\* returns Ok having rendered and written exactly the targets before k,
\* unless one of those targets itself failed with an error.
C1_RunStopsAtFirstFailedCondition ==
    (pc = "ready" /\ lastOp.op = "run" /\ is_context_ready /\ FailedConditions # {}) =>
        LET k == Min(FailedConditions)
        IN  /\ \A n \in 1..Len(log) : log[n].target < k \/ log[n] = Ev("condition", k)
            /\ \A m, n \in 1..Len(Targets("write")) :
                   m < n => Targets("write")[m] < Targets("write")[n]
            /\ lastOp.result = "Ok" <=> \A i \in Range(DefinedBefore(k)) : Complete(i)
            /\ lastOp.result = "Ok" =>
                   /\ Targets("render") = DefinedBefore(k)
                   /\ Targets("write") = DefinedBefore(k)

\* A run that wrote the first two targets and stopped at the third of three.
C1_Witness ==
    /\ pc = "ready" /\ lastOp.op = "run" /\ lastOp.result = "Ok"
    /\ Len(profile.targets) = 3
    /\ FailedConditions = {2, 3}
    /\ Targets("write") = <<1>>
    /\ Ev("condition", 2) \in Range(log)

----------------------------------------------------------------------------
(* Properties of prompt resolution *)

\* C2: when an accepted answer creates the context, the new context holds
\* every answer recorded so far.
C2_LazyContextKeepsAnswers ==
    [][(pc = "ready" /\ context = None /\ IsSome(context')) =>
            \A id \in DOMAIN prompt_answers' :
                /\ id \in DOMAIN ContextPrompts(context')
                /\ ContextPrompts(context')[id] = prompt_answers'[id]]_vars

\* An answer that is the empty string or the empty list.
Empty(answer) ==
    \/ answer.kind = "String" /\ answer.s = <<>>
    \/ answer.kind = "Array" /\ answer.items = <<>>

\* An answer that is a string of whitespace only, or the empty list.
Blank(answer) ==
    \/ answer.kind = "String" /\ \A k \in 1..Len(answer.s) : answer.s[k] \in Whitespace
    \/ answer.kind = "Array" /\ answer.items = <<>>

\* An answer of one character, or a list of one element.
Single(answer) ==
    \/ answer.kind = "String" /\ Len(answer.s) = 1
    \/ answer.kind = "Array" /\ Len(answer.items) = 1

\* The last call answered a required generic prompt.
AnsweredRequired ==
    /\ lastOp.op = "set_prompt_answer"
    /\ Unwrap(lastOp.prompt).tag = "PromptGeneric"
    /\ Unwrap(lastOp.prompt).prompt_data.required

\* The answer of the last call is recorded under its prompt id.
Recorded ==
    /\ Unwrap(lastOp.prompt).prompt_id \in DOMAIN prompt_answers
    /\ prompt_answers[Unwrap(lastOp.prompt).prompt_id] = Unwrap(lastOp.answer)

\* C3, as stated: a required generic prompt refuses the empty string and the
\* empty list with a validation error, and records every string of one
\* character and every list of one element.
C3_AsStated ==
    AnsweredRequired =>
        /\ Empty(Unwrap(lastOp.answer)) => (lastOp.result = "ValidationError" /\ ~Recorded)
        /\ Single(Unwrap(lastOp.answer)) => (lastOp.result # "ValidationError" /\ Recorded)

\* C3, amended: a required generic prompt refuses every string of whitespace
\* only (the empty string among them) and the empty list with a validation
\* error, and records every string of one character that is not whitespace
\* and every list of one element.
C3_RequiredRefusesBlank ==
    AnsweredRequired =>
        /\ Blank(Unwrap(lastOp.answer)) => (lastOp.result = "ValidationError" /\ ~Recorded)
        /\ (Single(Unwrap(lastOp.answer)) /\ ~Blank(Unwrap(lastOp.answer)))
                => (lastOp.result # "ValidationError" /\ Recorded)

\* A required prompt refused a single blank.
C3_Witness ==
    /\ AnsweredRequired
    /\ lastOp.answer = Some(VString(<<" ">>))
    /\ lastOp.result = "ValidationError"
    /\ DOMAIN prompt_answers = {}

\* The positions of the prompts that still need an answer: the database
\* prompt while no database is bound, the table prompt while no table is
\* set, a generic prompt while no answer is recorded under its id.
Unsatisfied ==
    {i \in 1..Len(prompts) :
        \/ prompts[i].tag = "PromptDatabase" /\ database_name = <<>>
        \/ prompts[i].tag = "PromptTable" /\ table = None
        \/ prompts[i].tag = "PromptGeneric"
            /\ prompts[i].prompt_id \notin DOMAIN prompt_answers}

\* The n-th smallest member of a set of numbers.
Nth(S, n) == CHOOSE m \in S : Cardinality({x \in S : x < m}) = n - 1

\* C4: prompts_unanswered is the prompts that still need an answer, each
\* once, in the order of the prompt list.
C4_UnansweredIsOrderedSubsequence ==
    pc = "ready" =>
        /\ Len(prompts_unanswered) = Cardinality(Unsatisfied)
        /\ \A n \in 1..Len(prompts_unanswered) :
               prompts_unanswered[n] = prompts[Nth(Unsatisfied, n)]

\* The database and the first generic prompt are answered, the table and
\* the second generic prompt are not.
C4_Witness ==
    /\ pc = "ready"
    /\ Len(prompts) = 4
    /\ Unsatisfied = {2, 4}
    /\ context = None

\* C5: once a database is bound the database prompt is never unanswered
\* again, once a table is set the table prompt is never unanswered again,
\* and prompts_unanswered stays the same over calls that are not answers.
C5_BoundStaysAnswered ==
    [][/\ (pc = "ready" /\ database_name # <<>>) =>
            /\ database_name' # <<>>
            /\ PromptDatabase \notin Range(prompts_unanswered')
       /\ (pc = "ready" /\ IsSome(table)) =>
            /\ IsSome(table')
            /\ PromptTable \notin Range(prompts_unanswered')
       /\ (pc = "ready" /\ lastOp'.op # "set_prompt_answer") =>
            prompts_unanswered' = prompts_unanswered]_vars

\* The database and the table were both answered, the table last, and the
\* task still lists both prompts.
C5_Witness ==
    /\ lastOp.op = "set_prompt_answer"
    /\ lastOp.prompt = Some(PromptTable)
    /\ lastOp.result = "Ok"
    /\ {PromptDatabase, PromptTable} \subseteq Range(prompts)
    /\ database_name # <<>>
    /\ Range(prompts_unanswered) \cap {PromptDatabase, PromptTable} = {}

\* C6: construction leaves the prompt list as the database prompt (when the
\* DSN binds no database), then the table prompt (when no table was
\* supplied), then one generic prompt for each prompt id of the profile in
\* declared order; no later call changes the list.
C6_PromptListFixed ==
    [][/\ (pc = "start" /\ pc' = "ready") =>
            LET d == IF database_name' = <<>> THEN 1 ELSE 0
                t == IF lastOp'.answer = None THEN 1 ELSE 0
            IN  /\ Len(prompts') = d + t + Len(profile.prompts)
                /\ d = 1 => prompts'[1] = PromptDatabase
                /\ t = 1 => prompts'[d + 1] = PromptTable
                /\ \A i \in 1..Len(profile.prompts) :
                       /\ prompts'[d + t + i].tag = "PromptGeneric"
                       /\ prompts'[d + t + i].prompt_id = profile.prompts[i]
       /\ pc = "ready" => prompts' = prompts]_vars

\* Every prompt of a list of four is answered, and the list still has four.
C6_Witness ==
    /\ pc = "ready"
    /\ Len(prompts) = 4
    /\ prompts[1] = PromptDatabase /\ prompts[2] = PromptTable
    /\ prompts_unanswered = <<>>
    /\ lastOp.op = "run"

\* C7: is_context_ready holds exactly when a context exists and no prompt
\* still needs an answer; run on a task that is not ready returns a runtime
\* error and evaluates, renders, writes and formats nothing.
C7_RunNeedsReadyContext ==
    pc = "ready" =>
        /\ is_context_ready <=> (IsSome(context) /\ Unsatisfied = {})
        /\ lastOp.op = "run" =>
            /\ lastOp.result = "RuntimeError" <=> (context = None \/ Unsatisfied # {})
            /\ lastOp.result = "RuntimeError" => log = <<>>

\* A run was refused on a task that has a context and an unanswered prompt.
C7_Witness ==
    /\ lastOp.op = "run"
    /\ lastOp.result = "RuntimeError"
    /\ IsSome(context)
    /\ Unsatisfied # {}

\* C8: render_prompt reports should_ask only when the condition is absent
\* or renders to a text that, trimmed, is "1".
C8_ShouldAskOnlyWhenConditionMet ==
    (lastOp.op = "render_prompt" /\ lastOp.result = "Ok") =>
        LET condition == Unwrap(lastOp.prompt).condition
        IN  Unwrap(lastOp.rendered).should_ask =>
                \/ condition = None
                \/ /\ Render(Unwrap(condition), context) # None
                   /\ Trim(Unwrap(Render(Unwrap(condition), context))) = <<"1">>

\* C9: the table only ever becomes a name the database lists; a table
\* given to new that the database does not list fails construction with a
\* validation error; answering the table prompt with a name that the
\* database does not list fails with a validation error and leaves the
\* table, the answers and the context as they were.
C9_TableIsReflected ==
    [][/\ table' # table =>
            (IsSome(table') /\ Unwrap(table') \in TableNames(database_name'))
       /\ (lastOp'.op = "new" /\ IsSome(lastOp'.answer)
             /\ IsSome(Unwrap(lastOp'.rendered).connect)) =>
            LET seen == Unwrap(lastOp'.rendered)
                listed == TableNames(DsnDatabase(Unwrap(seen.connect)))
            IN  Unwrap(lastOp'.answer).s \notin listed =>
                    /\ pc' = "failed" /\ table' = None
                    /\ \/ lastOp'.result = "ValidationError"
                       \/ seen.message = "list_table_names"
       /\ pc = "ready" =>
            \A v \in TableAnswers, env \in AnswerEnvs(PromptTable) :
                AsStrOrDefault(v) \notin TableNames(database_name) =>
                    LET out == SetPromptAnswerOutcome(PromptTable, v, env)
                    IN  /\ env.listOk => out.result = "ValidationError"
                        /\ out.result # "Ok"
       /\ (pc = "ready" /\ lastOp'.op = "set_prompt_answer"
             /\ lastOp'.prompt = Some(PromptTable)
             /\ AsStrOrDefault(Unwrap(lastOp'.answer)) \notin TableNames(database_name)) =>
            /\ lastOp'.result \in {"ValidationError", "DatabaseError"}
            /\ UNCHANGED <<table, prompt_answers, context>>]_vars

\* A table that the database does not list was refused on a task that has
\* a table, answers and a context.
C9_Witness ==
    /\ lastOp.op = "set_prompt_answer"
    /\ lastOp.prompt = Some(PromptTable)
    /\ lastOp.answer = Some(VString(TbX))
    /\ lastOp.result = "ValidationError"
    /\ table = Some(Tb1)
    /\ DOMAIN prompt_answers # {}
    /\ IsSome(context)

----------------------------------------------------------------------------
(* Properties of construction *)

EnvMessages ==
    {"Invalid env-file specified", "Invaid env file specified",
     "Invalid env-var specified", "Invaid env var specified"}

\* C10: when the effective dsn is not empty, new hands it to the adapter
\* as it is, loads no env file, reads no environment variable, and does
\* not fail on the env file or the environment variable.
C10_DsnWins ==
    (lastOp.op = "new" /\ Effective(overrides, profile.config, "dsn") # "") =>
        LET seen == Unwrap(lastOp.rendered)
        IN  /\ ~seen.env_loaded /\ ~seen.var_read
            /\ seen.message \notin EnvMessages
            /\ IsSome(seen.connect) =>
                   seen.connect = Some(Effective(overrides, profile.config, "dsn"))
            /\ lastOp.result = "Ok" => IsSome(seen.connect)
            /\ seen.message \in {"", "Cannot create config directory",
                                 "Invalid target-dir specified", "connect"}
                    \/ IsSome(seen.connect)

\* A task was made from a dsn with an empty env file and an empty env var.
C10_Witness ==
    /\ lastOp.op = "new" /\ lastOp.result = "Ok"
    /\ Effective(overrides, profile.config, "dsn") = DsnDb1
    /\ Effective(overrides, profile.config, "env_file") = ""
    /\ Effective(overrides, profile.config, "env_var") = ""
    /\ Unwrap(lastOp.rendered).connect = Some(DsnDb1)

\* The value the directive name should have: the override when the
\* overrides carry one that is not empty, the profile's value otherwise.
PresentOverride(name) ==
    IF IsSome(overrides) /\ IsSome(Unwrap(overrides)[name])
        /\ Unwrap(Unwrap(overrides)[name]) # ""
    THEN Unwrap(Unwrap(overrides)[name])
    ELSE profile.config[name]

\* C11: new behaves as it does on a profile that carries, for each of the
\* four directives, the override when present and not empty and the
\* profile's value otherwise: same result, same connection string, same
\* target directory.
C11_EmptyOverrideDoesNotShadow ==
    pc = "start" =>
        \A t \in TableArgs, env \in NewEnvs :
            NewOutcome(profile, "ctx", t, overrides, env)
              = NewOutcome([profile EXCEPT !.config =
                                [name \in DOMAIN profile.config |-> PresentOverride(name)]],
                           "ctx", t, None, env)

----------------------------------------------------------------------------
(* Properties of profile validation *)

\* The profile lists a prompt or a target that it does not define.
ListsUndefined ==
    \/ \E i \in 1..Len(profile.prompts) : profile.prompts[i] \notin DOMAIN profile.prompt
    \/ \E i \in 1..Len(profile.targets) : profile.targets[i] \notin DOMAIN profile.target

\* C12: a profile that lists a prompt or a target without a definition
\* never becomes a task, no call on the way from set_current_profile to
\* new panics, and when set_current_profile turns the profile down it does
\* so with a validation error.
C12_UndefinedIdIsValidationError ==
    ListsUndefined =>
        /\ pc # "ready"
        /\ lastOp.result # "Panic"
        /\ pc = "rejected" => lastOp.result = "ValidationError"

----------------------------------------------------------------------------
(* Properties of the prompt loop *)

\* The items a prompt definition enumerates: the pieces between the commas
\* of its rendered enumerate template.
EnumeratedItems(prompt_data) ==
    Split(Unwrap(Render(Unwrap(prompt_data.enumerate), context)), <<>>)

\* C13: when the prompt loop answers a generic prompt that has an
\* enumerate template and should be asked, it has shown the dialog once
\* for each enumerated item.
C13_DialogOncePerItem ==
    (lastOp.op = "set_prompt_answer" /\ IsSome(lastOp.rendered)
        /\ Unwrap(lastOp.prompt).tag = "PromptGeneric"
        /\ IsSome(Unwrap(lastOp.prompt).prompt_data.enumerate)
        /\ Unwrap(lastOp.rendered).asks > 0) =>
            Unwrap(lastOp.rendered).asks
                = Len(EnumeratedItems(Unwrap(lastOp.prompt).prompt_data))

----------------------------------------------------------------------------
(* Properties of failures during target generation *)

\* The same run with a formatter that exits with the given status.
WithStatus(env, status) == RunOutcome([env EXCEPT !.status = status])

\* C14: a run in which the formatter commands exit with a non-zero status
\* has the result of the same run with formatters that exit with zero, and
\* goes through the same steps of the same targets; the exit status shows
\* only in the event of the formatter itself.
C14_FormatterExitDoesNotAbort ==
    (pc = "ready" /\ is_context_ready) =>
        \A env \in RunEnvs :
            LET failed == WithStatus(env, 1)
                passed == WithStatus(env, 0)
            IN  /\ failed.result = passed.result
                /\ Len(failed.log) = Len(passed.log)
                /\ \A n \in 1..Len(failed.log) :
                       IF passed.log[n].ev = "formatted"
                       THEN failed.log[n] = Ev("formatter_failed", passed.log[n].target)
                       ELSE failed.log[n] = passed.log[n]

\* A run returned Ok after the formatter of the first target failed, and
\* wrote the second target.
C14_Witness ==
    /\ lastOp.op = "run" /\ lastOp.result = "Ok"
    /\ Ev("formatter_failed", 1) \in Range(log)
    /\ Ev("write", 2) \in Range(log)

\* C15: a run that fails in a target leaves every target before it
\* rendered and written, the failed target unfinished and every later
\* target untouched; a run that returns Ok left no target unfinished.
C15_FailureStopsRunWithoutRollback ==
    (pc = "ready" /\ lastOp.op = "run") =>
        /\ lastOp.result \notin {"Ok", "RuntimeError"} =>
              \E k \in Defined :
                  /\ \A j \in Defined : j < k => Complete(j)
                  /\ ~Complete(k)
                  /\ \A n \in 1..Len(log) : log[n].target <= k
        /\ lastOp.result = "Ok" =>
              \A n \in 1..Len(log) : log[n].ev # "condition" => Complete(log[n].target)

\* The write of the second of three targets failed: the first is written,
\* the third untouched.
C15_Witness ==
    /\ lastOp.op = "run" /\ lastOp.result = "IoError"
    /\ Len(profile.targets) = 3
    /\ Complete(1)
    /\ Ev("mkdir", 2) \in Range(log) /\ Ev("write", 2) \notin Range(log)
    /\ \A n \in 1..Len(log) : log[n].target # 3

----------------------------------------------------------------------------
(* Properties of the rendering context *)

\* C16: an accepted set_prompt_answer on a task that has a context leaves
\* every recorded answer in the context with the value recorded for it; the
\* answer to a generic prompt replaces the value under its id, in the
\* recorded answers and in the context, and the values under the other ids
\* stay.
C16_ContextHoldsLatestAnswers ==
    [][(pc = "ready" /\ IsSome(context)
          /\ lastOp'.op = "set_prompt_answer" /\ lastOp'.result = "Ok") =>
            /\ IsSome(context')
            /\ \A id \in DOMAIN prompt_answers' :
                   /\ id \in DOMAIN ContextPrompts(context')
                   /\ ContextPrompts(context')[id] = prompt_answers'[id]
            /\ Unwrap(lastOp'.prompt).tag = "PromptGeneric" =>
                   /\ prompt_answers'[Unwrap(lastOp'.prompt).prompt_id]
                        = Unwrap(lastOp'.answer)
                   /\ \A id \in DOMAIN prompt_answers \ {Unwrap(lastOp'.prompt).prompt_id} :
                          prompt_answers'[id] = prompt_answers[id]
            /\ Unwrap(lastOp'.prompt).tag # "PromptGeneric" =>
                   prompt_answers' = prompt_answers]_vars

\* The first prompt was answered with a list on a task whose context
\* holds an answer to the second prompt, and the context holds the list.
C16_Witness ==
    /\ lastOp.op = "set_prompt_answer" /\ lastOp.result = "Ok"
    /\ lastOp.prompt = Some(PromptGeneric(PromptNames[1], PromptDef(1)))
    /\ lastOp.answer = Some(VArray(<< <<"1">> >>))
    /\ IsSome(context)
    /\ DOMAIN ContextPrompts(context) = {PromptNames[1], PromptNames[2]}
    /\ ContextPrompts(context)[PromptNames[1]] = VArray(<< <<"1">> >>)

\* C17: after a successful new and after every successful
\* set_prompt_answer the task has a context exactly when a database is
\* bound and a table is set.
C17_ContextIffDatabaseAndTable ==
    (lastOp.op \in {"new", "set_prompt_answer"} /\ lastOp.result = "Ok") =>
        (IsSome(context) <=> (database_name # <<>> /\ IsSome(table)))

\* The answer to the table prompt made the context.
C17_Witness ==
    /\ lastOp.op = "set_prompt_answer" /\ lastOp.result = "Ok"
    /\ lastOp.prompt = Some(PromptTable)
    /\ PromptDatabase \in Range(prompts)
    /\ IsSome(context)
    /\ DOMAIN prompt_answers = {}

\* C18: once the task has a context, no step changes the reflected
\* database or the table name of the context.
C18_ContextSchemaIsFixed ==
    [][IsSome(context) =>
          /\ IsSome(context')
          /\ Unwrap(context').database = Unwrap(context).database
          /\ Unwrap(context').table_name = Unwrap(context).table_name]_vars

\* The table prompt was answered again with another table, and the context
\* still has the table it was made with.
C18_Witness ==
    /\ lastOp.op = "set_prompt_answer" /\ lastOp.result = "Ok"
    /\ lastOp.prompt = Some(PromptTable)
    /\ table = Some(Tb2)
    /\ IsSome(context) /\ Unwrap(context).table_name = Tb1

----------------------------------------------------------------------------
(* Frame properties *)

\* C19: a run step leaves the prompt list, the recorded answers, the bound
\* database, the subject table, the target directory and the context as
\* they were, whatever its result.
C19_RunLeavesTaskUnchanged ==
    [][lastOp'.op = "run" => UNCHANGED taskVars]_vars

\* A run failed on a write, on a task that has answers and a context.
C19_Witness ==
    /\ lastOp.op = "run" /\ lastOp.result = "IoError"
    /\ DOMAIN prompt_answers # {}
    /\ IsSome(context) /\ DOMAIN ContextPrompts(context) # {}

\* C20: a render_prompt step, whether it returns Ok or an error, leaves
\* the task as it was: prompts_unanswered, is_context_ready and the context
\* are the same after it as before.
C20_RenderPromptLeavesTaskUnchanged ==
    [][lastOp'.op = "render_prompt" =>
          /\ UNCHANGED taskVars
          /\ prompts_unanswered' = prompts_unanswered
          /\ is_context_ready' = is_context_ready]_vars

\* A render_prompt failed on a task that has a context and a prompt to
\* answer.
C20_Witness ==
    /\ lastOp.op = "render_prompt" /\ lastOp.result = "TemplateError"
    /\ IsSome(context)
    /\ prompts_unanswered # <<>>

----------------------------------------------------------------------------
(* Properties of the --prompt overrides *)

\* The items written one after the other with a comma between them.
RECURSIVE CommaJoined(_)
CommaJoined(items) ==
    IF Len(items) = 1 THEN Head(items)
    ELSE Head(items) \o <<",">> \o CommaJoined(Tail(items))

HasComma(s) == \E k \in 1..Len(s) : s[k] = ","

\* The --prompt argument the last pass of the overrides was about.
OverrideArg == Unwrap(prompt_args)[Unwrap(lastOp.rendered).at]

\* C21: a --prompt argument whose key is the id of a generic prompt that
\* was unanswered when the overrides began is handed to set_prompt_answer,
\* and when accepted recorded under that id, as an array when its value
\* holds a comma and as a string otherwise: the string is the value, and
\* the array is the list of at least two comma-free pieces that, written
\* with commas between them, give the value back ("1,2,3" gives "1", "2",
\* "3").
C21_OverrideSplitsOnComma ==
    (lastOp.op = "prompt_override" /\ OverriddenPrompts(OverrideArg[1]) # {}) =>
        LET value == OverrideArg[2]
            answer == Unwrap(lastOp.answer)
        IN  /\ lastOp.answer # None
            /\ Unwrap(lastOp.prompt).prompt_id = OverrideArg[1]
            /\ ~HasComma(value) => answer = VString(value)
            /\ HasComma(value) =>
                /\ answer.kind = "Array"
                /\ Len(answer.items) >= 2
                /\ \A k \in 1..Len(answer.items) : ~HasComma(answer.items[k])
                /\ CommaJoined(answer.items) = value
            /\ value = <<"1", ",", "2", ",", "3">> =>
                answer = VArray(<< <<"1">>, <<"2">>, <<"3">> >>)
            /\ lastOp.result = "Ok" =>
                /\ OverrideArg[1] \in DOMAIN prompt_answers
                /\ prompt_answers[OverrideArg[1]] = answer

\* "1,2,3" was given for a prompt and its three pieces are recorded.
C21_Witness ==
    /\ lastOp.op = "prompt_override"
    /\ lastOp.result = "Ok"
    /\ OverrideArg[2] = <<"1", ",", "2", ",", "3">>
    /\ OverrideArg[1] \in DOMAIN prompt_answers
    /\ prompt_answers[OverrideArg[1]] = VArray(<< <<"1">>, <<"2">>, <<"3">> >>)

----------------------------------------------------------------------------
(* Properties of the dialog *)

\* The keyed option set a single-answer dialog was shown for.
AskedKeyed ==
    /\ lastOp.op = "ask_prompt"
    /\ ~Unwrap(lastOp.rendered).multiple
    /\ Unwrap(lastOp.rendered).options # None
    /\ Unwrap(Unwrap(lastOp.rendered).options).kind = "Object"

\* C22: for a single-answer prompt with a keyed option set, ask_prompt
\* shows the confirm widget when the key set is {"0", "1"} and the select
\* widget for every other key set.
C22_ConfirmExactlyForZeroOne ==
    AskedKeyed =>
        LET keys == Range(Unwrap(Unwrap(lastOp.rendered).options).keys)
        IN  Unwrap(lastOp.rendered).widget =
                IF keys = {<<"0">>, <<"1">>} THEN "confirm" ELSE "select"

----------------------------------------------------------------------------
(* Properties of the overrides of the directives *)

\* The override of a directive, when the overrides carry one that is not
\* empty.
GivenOverride(name) ==
    IF IsSome(overrides) /\ IsSome(Unwrap(overrides)[name])
       /\ Unwrap(Unwrap(overrides)[name]) # ""
    THEN Unwrap(overrides)[name]
    ELSE None

\* C23: no operation changes the profile of the task or its directives,
\* whatever the overrides; a task created with a dsn override connects
\* with the override, and one created with a target-dir override has the
\* override below the context directory as its target directory.
C23_OverridesLeaveProfile ==
    [][/\ profile' = profile
       /\ (lastOp'.op = "new" /\ lastOp'.result = "Ok") =>
            /\ GivenOverride("dsn") # None =>
                 Unwrap(lastOp'.rendered).connect = GivenOverride("dsn")
            /\ GivenOverride("target_dir") # None =>
                 target_dir' = CanonicalTargetDir("ctx", Unwrap(GivenOverride("target_dir")))]_vars

\* A task was created with a dsn override that differs from the profile's
\* dsn, or with a target-dir override that differs from the profile's,
\* and was then given an answer; the profile is the one it started with.
C23_Witness ==
    /\ pc = "ready"
    /\ lastOp.op = "set_prompt_answer"
    /\ \E name \in {"dsn", "target_dir"} :
         /\ GivenOverride(name) # None
         /\ Unwrap(GivenOverride(name)) # profile.config[name]

----------------------------------------------------------------------------
(* Properties of skipped prompts *)

\* The prompt loop has just passed over a generic prompt without showing
\* its dialog.
Skipped ==
    /\ lastOp.op = "set_prompt_answer"
    /\ lastOp.rendered # None
    /\ Unwrap(lastOp.rendered).asks = 0

\* C24: when the prompt loop does not show the dialog of a generic prompt
\* because its condition is not met, the loop goes on: unless the database
\* fails, the pass over the prompt succeeds and the prompt is no longer
\* unanswered, whether or not the prompt is required.
C24_SkippedPromptLetsLoopProceed ==
    Skipped =>
        \/ lastOp.result = "DatabaseError"
        \/ /\ lastOp.result = "Ok"
           /\ Unwrap(lastOp.prompt).prompt_id \in DOMAIN prompt_answers

----------------------------------------------------------------------------
(* Properties of condition evaluation *)

\* The decision a condition gives against the task as it is now: the
\* condition is absent, or it renders and what it renders to is "1" with
\* whitespace around it.
\* (run fails on a condition that does not render and render_prompt passes
\* over it; neither case is a decision compared below.)
Decision(condition) ==
    \/ condition = None
    \/ LET evaluated == Render(Unwrap(condition), context)
       IN  evaluated # None /\ Trim(Unwrap(evaluated)) = <<"1">>

----------------------------------------------------------------------------
(* Properties of schema reflection *)

\* The last call invoked get_reflection.
Reflected == log # <<>> /\ log[1].ev = "get_reflection"

----------------------------------------------------------------------------
(* Properties of the connection string resolution *)

\* C27: a new whose effective dsn is empty checks, in this order, that the
\* env-file directive is not empty, that the env file loads, that the
\* env-var directive is not empty and that the variable can be read, and
\* fails at the first check that fails: with an empty env-file nothing is
\* loaded or read; an env file that does not load fails the call whatever
\* the env-var; an empty env-var fails the call after the env file was
\* loaded and before any variable is read; a call that gets past the four
\* checks has loaded the file and read the variable.  Each of these
\* failures is a validation error, creates no directory and attempts no
\* connection.
C27_EnvChecksInOrder ==
    (lastOp.op = "new" /\ Effective(overrides, profile.config, "dsn") = "") =>
        LET seen == Unwrap(lastOp.rendered)
            env_file == Effective(overrides, profile.config, "env_file")
            env_var == Effective(overrides, profile.config, "env_var")
        IN  /\ env_file = "" =>
                 /\ seen.message = "Invalid env-file specified"
                 /\ ~seen.env_loaded /\ ~seen.var_read
            /\ (env_file # "" /\ ~seen.env_loaded) =>
                 /\ seen.message = "Invaid env file specified"
                 /\ ~seen.var_read
            /\ (env_file # "" /\ seen.env_loaded /\ env_var = "") =>
                 /\ seen.message = "Invalid env-var specified"
                 /\ ~seen.var_read
            /\ (env_file # "" /\ seen.env_loaded /\ env_var # "") => seen.var_read
            /\ seen.message = "Invaid env var specified" =>
                 env_file # "" /\ seen.env_loaded /\ env_var # ""
            /\ seen.message \in EnvMessages =>
                 /\ lastOp.result = "ValidationError"
                 /\ seen.created = {}
                 /\ seen.connect = None
                 /\ pc = "failed"

\* A new with no dsn and no env-var failed on the env-var after it loaded
\* the env file.
C27_Witness ==
    /\ lastOp.op = "new"
    /\ Effective(overrides, profile.config, "dsn") = ""
    /\ Effective(overrides, profile.config, "env_file") # ""
    /\ Unwrap(lastOp.rendered).message = "Invalid env-var specified"
    /\ Unwrap(lastOp.rendered).env_loaded
    /\ Unwrap(lastOp.rendered).created = {}

----------------------------------------------------------------------------
(* Properties of the target directory resolution *)

----------------------------------------------------------------------------
(* Properties of the order of generation *)

\* The place of a step in the generation of one target.
Rank(ev) ==
    CASE ev = "condition" -> 1
      [] ev = "render" -> 2
      [] ev = "path" -> 3
      [] ev = "mkdir" -> 4
      [] ev = "write" -> 5
      [] ev = "launch" -> 6
      [] ev \in {"formatted", "formatter_failed"} -> 7

\* The steps that come before a step in render_target.
StepsBefore(ev) ==
    {b \in {"render", "path", "mkdir", "write", "launch"} :
        Rank(b) < Rank(ev) /\ Rank(ev) > 1}

\* C29: what a run does is ordered by target and, within a target, as
\* condition, body, path, directory, file, formatter launch, formatter
\* exit; a step of a target happens only when every step before it has
\* happened for that target (the formatter is launched after the file is
\* written, and has exited before anything else is done), and only when
\* every defined target before it went through all of its steps, the exit
\* of its formatter included.
C29_GenerationIsSequential ==
    lastOp.op = "run" =>
        /\ \A m, n \in 1..Len(log) :
              m < n =>
                \/ log[m].target < log[n].target
                \/ /\ log[m].target = log[n].target
                   /\ Rank(log[m].ev) < Rank(log[n].ev)
        /\ \A n \in 1..Len(log) :
              LET i == log[n].target
                  target == profile.target[profile.targets[i]]
              IN  /\ \A b \in StepsBefore(log[n].ev) : Ev(b, i) \in Range(log)
                  /\ (log[n].ev # "condition" /\ IsSome(target.condition)) =>
                        Ev("condition", i) \in Range(log)
                  /\ \A j \in Defined : j < i => Complete(j)

\* A run evaluated the condition of its second target and formatted it,
\* after the formatter of the first had exited.
C29_Witness ==
    /\ lastOp.op = "run"
    /\ \E n \in 1..Len(log) : log[n].ev \in {"formatted", "formatter_failed"}
                              /\ log[n].target = 1
    /\ Ev("condition", 2) \in Range(log)
    /\ Ev("launch", 2) \in Range(log)
    /\ Ev("formatted", 2) \in Range(log)

----------------------------------------------------------------------------
(* Properties of a fully answered task *)

\* C30: when new or the last answer given to the task (by
\* set_prompt_answer, from the prompt loop or from a --prompt argument)
\* returned Ok and no prompt is unanswered, the task has a context,
\* is_context_ready holds, and run does not fail on its precondition.
\* (A task whose every answer returned Ok is such a task: the other
\* operations leave the task as it is.)
C30_AnsweredMeansReady ==
    (/\ pc = "ready"
     /\ lastOp.op \in {"new", "set_prompt_answer", "prompt_override"}
     /\ lastOp.result = "Ok"
     /\ prompts_unanswered = <<>>) =>
        /\ IsSome(context)
        /\ is_context_ready
        /\ \A env \in RunEnvs : RunOutcome(env).result # "RuntimeError"

\* The last of the prompts of a task, among them the table prompt and a
\* generic prompt, was answered, and the task has a context.
C30_Witness ==
    /\ lastOp.op = "set_prompt_answer"
    /\ lastOp.result = "Ok"
    /\ prompts_unanswered = <<>>
    /\ PromptTable \in Range(prompts)
    /\ \E i \in 1..Len(prompts) : prompts[i].tag = "PromptGeneric"
    /\ IsSome(context)

----------------------------------------------------------------------------
(* Properties of failed answers *)

\* C31: a set_prompt_answer that returns an error leaves the bound
\* database, the subject table, the recorded answers and the context, and
\* with them prompts_unanswered, as they were before the call.
C31_FailedAnswerLeavesTaskUnchanged ==
    [][(lastOp'.op \in {"set_prompt_answer", "prompt_override"}
          /\ lastOp'.prompt # None
          /\ lastOp'.result # "Ok") =>
            /\ UNCHANGED <<database_name, table, prompt_answers, context>>
            /\ prompts_unanswered' = prompts_unanswered]_vars


(***************************************************************************)
(* Properties of the context's subject table                               *)
(***************************************************************************)

\* C32: whenever a rendering context exists, the table recorded in the
\* context is the task's current subject table, also after PromptTable or
\* PromptDatabase is answered again.
C32_ContextTableIsCurrent ==
    IsSome(context) => (IsSome(table) /\ Unwrap(context).table_name = Unwrap(table))


(***************************************************************************)
(* Properties of the run command's prompt loop                             *)
(***************************************************************************)

\* C33: the prompt loop of the run command terminates: the command
\* eventually either leaves the loop with no prompt unanswered and calls
\* run, or returns an error.
C33_PromptLoopTerminates ==
    <>(CommandAborted \/ (CommandRan /\ prompts_unanswered = <<>>))

\* The loop asked the table and the generic prompts of a command without
\* --prompt arguments, and run was called.
C33_Witness ==
    /\ CommandRan /\ lastOp.result = "Ok"
    /\ prompt_args = None
    /\ prompts_unanswered = <<>>
    /\ Len(prompts) = 3 /\ prompts[1].tag = "PromptTable"
    /\ \A i \in 2..3 : prompts[i].prompt_id \in DOMAIN prompt_answers


\* A pass of the prompt loop has shown the dialog of a prompt.
Presented ==
    /\ lastOp.op = "set_prompt_answer"
    /\ lastOp.rendered # None
    /\ Unwrap(lastOp.rendered).asks = 1

\* C34: during one run command each prompt is presented at most once and
\* in prompt-list order, and a generic prompt whose --prompt override was
\* accepted is never presented: a dialog is shown only while the command
\* has not failed, for the first prompt of the list that is still
\* unanswered; an accepted pass takes exactly that prompt out of the
\* unanswered prompts; and an answered prompt stays answered.
C34_PresentedOnceInOrder ==
    [][/\ Presented' =>
            /\ ~CommandAborted
            /\ prompts_unanswered # <<>>
            /\ lastOp'.prompt = Some(Head(prompts_unanswered))
       /\ (lastOp'.op = "set_prompt_answer" /\ lastOp'.result = "Ok") =>
            prompts_unanswered' = Tail(prompts_unanswered)
       /\ \A i \in 1..Len(prompts) :
            ~Unanswered(prompts[i]) => ~Unanswered(prompts[i])']_vars

\* The first generic prompt was presented after the table prompt, and
\* the second one is the only prompt left.
C34_Witness ==
    /\ Presented /\ lastOp.result = "Ok"
    /\ prompt_args = None
    /\ Len(prompts) = 3
    /\ lastOp.prompt = Some(prompts[2])
    /\ prompts_unanswered = <<prompts[3]>>


\* The table prompt is presented after both generic prompts were answered
\* by --prompt arguments, and no prompt is left for the loop.
C34_OverriddenWitness ==
    /\ Presented /\ lastOp.result = "Ok"
    /\ prompt_args # None
    /\ lastOp.prompt = Some(PromptTable)
    /\ Len(prompts) = 3
    /\ prompts_unanswered = <<>>

(***************************************************************************)
(* Properties of the dialogs of the prompt loop                            *)
(***************************************************************************)

\* A pass of the prompt loop has come to the dialog of a generic prompt
\* whose condition is met.
Asked ==
    /\ lastOp.op \in {"set_prompt_answer", "ask_prompt"}
    /\ lastOp.rendered # None
    /\ Unwrap(lastOp.rendered).asks = 1
    /\ Unwrap(lastOp.prompt).tag = "PromptGeneric"

\* C35: in the prompt loop a generic prompt whose condition is met leads
\* to a widget and an answer given to set_prompt_answer, whatever options
\* it declares, and never to an error of ask_prompt; a prompt declared
\* without options is asked through the free-text input.
C35_EveryOptionShapeIsAsked ==
    Asked => lastOp.op = "set_prompt_answer"


(***************************************************************************)
(* Properties of the profile registry                                      *)
(***************************************************************************)

\* C36: every name in the registry matches the profile-name pattern,
\* after any add_profile, init_profile and remove_profile, also when
\* add_profile takes the name from the profile file.
C36_RegisteredNamesMatch ==
    \A name \in DOMAIN profiles : IsMatch(name)


\* The name a registry call was given.
CalledWith == Unwrap(lastOp.rendered).name

\* C37: create_task succeeds only while a current profile is set.  The
\* current profile is set only by a set_current_profile that succeeds; a
\* name that is not registered gives a validation error and leaves the
\* current profile as it was; remove_profile of the current profile's
\* name clears it, and nothing else does; create_task without a current
\* profile returns a runtime error and does not construct a task.
C37_CreateTaskNeedsCurrentProfile ==
    [][/\ lastOp'.op = "create_task" =>
            /\ UNCHANGED registryVars
            /\ lastOp'.result = "Ok" => current_profile # None
            /\ current_profile = None =>
                 /\ lastOp'.result = "RuntimeError"
                 /\ ~Unwrap(lastOp'.rendered).constructed
       /\ (current_profile' # current_profile /\ current_profile' # None) =>
            /\ lastOp'.op = "set_current_profile" /\ lastOp'.result = "Ok"
            /\ CalledWith' \in DOMAIN profiles
       /\ (lastOp'.op = "set_current_profile" /\ CalledWith' \notin DOMAIN profiles) =>
            /\ lastOp'.result = "ValidationError"
            /\ UNCHANGED current_profile
       /\ (lastOp'.op = "remove_profile" /\ current_profile # None
             /\ Unwrap(current_profile).name = CalledWith') =>
            current_profile' = None
       /\ (current_profile # None /\ current_profile' = None) =>
            /\ lastOp'.op = "remove_profile"
            /\ Unwrap(current_profile).name = CalledWith']_vars

\* A task was made from the current profile, which is registered.
C37_Witness ==
    /\ lastOp.op = "create_task"
    /\ lastOp.result = "Ok"
    /\ Unwrap(lastOp.rendered).constructed
    /\ current_profile # None
    /\ Unwrap(current_profile).name \in DOMAIN profiles

====
